---- MODULE Spec2Model ----
(***************************************************************************)
(* Model of the opsai-bot alert-to-remediation pipeline:                   *)
(*   - PolicyEvaluator.Evaluate          (domain/service/policy_evaluator) *)
(*   - Whitelist / Executor.ValidateCommand (adapter/outbound/kubernetes)  *)
(*   - ActionPlanner.Plan                                                  *)
(*   - Orchestrator.HandleAlert / HandleApproval / executeAction           *)
(* Strings that the code inspects character by character (commands) are    *)
(* sequences of one-character strings; every other string is an atom.      *)
(***************************************************************************)
EXTENDS Integers, Sequences, FiniteSets, TLC

(***************************************************************************)
(* Bounds of the model.                                                    *)
(***************************************************************************)
\* HandleApproval calls made after the alert was handled
MaxApprovals == 2
\* suggestions the diagnosis returns for one alert
MaxSuggestions == 1
\* chunks concatenated into one command string for the whitelist
MaxChunks == 3
MaxPlanned == 2
MaxScript == 4
MaxBatch == 2
MaxThreads == 1
MaxTurns == 1
MaxClicks == 2
MaxSpeakers == 2

(***************************************************************************)
(* Strings as character sequences.                                         *)
(***************************************************************************)
\* unicode.ToLower on the letters that occur in the model's inputs
LowerChar(c) ==
    CASE c = "C" -> "c"
      [] c = "A" -> "a"
      [] c = "T" -> "t"
      [] c = "L" -> "l"
      [] c = "S" -> "s"
      [] c = "H" -> "h"
      [] c = "P" -> "p"
      [] OTHER -> c

\* strings.ToLower
ToLower(s) == [i \in 1..Len(s) |-> LowerChar(s[i])]

\* strings.HasPrefix
HasPrefix(s, p) == Len(p) <= Len(s) /\ SubSeq(s, 1, Len(p)) = p

\* strings.Contains
Contains(s, p) ==
    \E i \in 0..(Len(s) - Len(p)) : SubSeq(s, i + 1, i + Len(p)) = p

RECURSIVE FieldsFrom(_, _, _)
\* strings.Fields, scanning s from position i with the current token cur
FieldsFrom(s, i, cur) ==
    IF i > Len(s)
    THEN IF cur = <<>> THEN <<>> ELSE <<cur>>
    ELSE IF s[i] = " "
         THEN IF cur = <<>>
              THEN FieldsFrom(s, i + 1, <<>>)
              ELSE <<cur>> \o FieldsFrom(s, i + 1, <<>>)
         ELSE FieldsFrom(s, i + 1, Append(cur, s[i]))

\* strings.Fields: the maximal runs of non-space characters
Fields(s) == FieldsFrom(s, 1, <<>>)

RECURSIVE Join(_, _)
\* strings.Join
Join(parts, sep) ==
    IF parts = <<>> THEN <<>>
    ELSE IF Len(parts) = 1 THEN parts[1]
    ELSE parts[1] \o sep \o Join(Tail(parts), sep)

(***************************************************************************)
(* Whitelist (command validator) and Executor.ValidateCommand.             *)
(***************************************************************************)
\* WhitelistConfig.Exec of the model's validator, after toSet lower-cased it
ExecSet == {<<"l", "s">>, <<"c", "a", "t">>, <<"p", "s">>, <<"c", "u", "r", "l">>}

\* WhitelistConfig.BlockedNamespaces
BlockedNS == {<<"k", "u", "b", "e", "-", "s", "y", "s", "t", "e", "m">>}

\* the backtick character (the lexer of TLA+ does not take it inside a string)
Backtick == "BACKTICK"

\* dangerousPatterns: shell metacharacters and injection patterns
dangerousPatterns ==
    {<<"$", "(">>, <<Backtick>>, <<"|">>, <<">", ">">>, <<"<", "<">>, <<";">>, <<"&", "&">>, <<"|", "|">>}

\* sensitivePathFragments
sensitivePathFragments ==
    {<<"/", "e", "t", "c", "/", "s", "h", "a", "d", "o", "w">>, <<"/", "e", "t", "c", "/", "p", "a", "s", "s", "w", "d">>,
     <<"/", "e", "t", "c", "/", "m", "a", "s", "t", "e", "r", ".", "p", "a", "s", "s", "w", "d">>,
     <<"/", "p", "r", "o", "c", "/", "s", "e", "l", "f", "/", "e", "n", "v", "i", "r", "o", "n">>,
     <<"/", "p", "r", "o", "c", "/", "s", "e", "l", "f", "/", "c", "m", "d", "l", "i", "n", "e">>,
     <<"/", ".", "s", "s", "h", "/">>, <<"/", ".", "k", "u", "b", "e", "/", "c", "o", "n", "f", "i", "g">>, <<"/", ".", "e", "n", "v">>,
     <<"/", "v", "a", "r", "/", "r", "u", "n", "/", "s", "e", "c", "r", "e", "t", "s">>}

\* the URL schemes IsExecAllowed looks for in curl arguments
HttpPrefix == <<"h", "t", "t", "p", ":", "/", "/">>
HttpsPrefix == <<"h", "t", "t", "p", "s", ":", "/", "/">>

\* isInternalClusterURL: the URL contains one of the internal patterns
isInternalClusterURL(u) ==
    \E pattern \in {<<"l", "o", "c", "a", "l", "h", "o", "s", "t">>, <<"1", "2", "7", ".", "0", ".", "0", ".", "1">>, <<":", ":", "1">>,
                    <<".", "s", "v", "c", ".", "c", "l", "u", "s", "t", "e", "r", ".", "l", "o", "c", "a", "l">>, <<".", "s", "v", "c", ".", "c", "l", "u", "s", "t", "e", "r", ".">>,
                    <<".", "l", "o", "c", "a", "l", ":">>, <<".", "l", "o", "c", "a", "l", "/">>} :
        Contains(u, pattern)

\* IsExecAllowed looking at the binary alone
IsExecAllowed_BinaryOnly(command) ==
    LET parts == Fields(command)
    IN  /\ Len(parts) # 0
        /\ ToLower(parts[1]) \in ExecSet

\* Whitelist.IsExecAllowed: binary in the exec set, no dangerous pattern, no
\* sensitive path fragment, and for curl only cluster-internal URLs
IsExecAllowed(command) ==
    LET parts == Fields(command)
        fullCmd == ToLower(command)
    IN  /\ Len(parts) # 0
        /\ ToLower(parts[1]) \in ExecSet
        /\ \A pattern \in dangerousPatterns : ~Contains(fullCmd, pattern)
        /\ \A fragment \in sensitivePathFragments : ~Contains(fullCmd, fragment)
        /\ (ToLower(parts[1]) = <<"c", "u", "r", "l">>) =>
              \A i \in 2..Len(parts) :
                  LET argLower == ToLower(parts[i])
                  IN  (HasPrefix(argLower, HttpPrefix) \/ HasPrefix(argLower, HttpsPrefix))
                          => isInternalClusterURL(argLower)

\* Whitelist.ValidateExecCommand: joins the tokens and asks IsExecAllowed
ValidateExecCommand(command) ==
    IF Len(command) = 0
    THEN [allowed |-> FALSE, reason |-> "empty command"]
    ELSE IF ~IsExecAllowed(Join(command, <<" ">>))
         THEN [allowed |-> FALSE, reason |-> "command not allowed"]
         ELSE [allowed |-> TRUE, reason |-> "command allowed"]

\* Whitelist.IsNamespaceBlocked
IsNamespaceBlocked(ns) == ns \in BlockedNS

RECURSIVE extractNamespaceFrom(_, _)
\* extractNamespaceFlag, scanning the tokens from index i
extractNamespaceFrom(command, i) ==
    IF i > Len(command) THEN <<>>
    ELSE IF (command[i] = <<"-", "n">> \/ command[i] = <<"-", "-", "n", "a", "m", "e", "s", "p", "a", "c", "e">>) /\ i + 1 <= Len(command)
         THEN command[i + 1]
         ELSE IF HasPrefix(command[i], <<"-", "-", "n", "a", "m", "e", "s", "p", "a", "c", "e", "=">>)
              THEN SubSeq(command[i], 13, Len(command[i]))
              ELSE extractNamespaceFrom(command, i + 1)

\* extractNamespaceFlag: the value of the first -n / --namespace / --namespace=
extractNamespaceFlag(command) == extractNamespaceFrom(command, 1)

\* Executor.ValidateCommand: whitelist, then the blocked-namespace flag check
ValidateCommand(command) ==
    IF Len(command) = 0
    THEN [Allowed |-> FALSE, Reason |-> "empty command", Risk |-> "none"]
    ELSE LET v == ValidateExecCommand(command)
             ns == extractNamespaceFlag(command)
         IN  IF ~v.allowed
             THEN [Allowed |-> FALSE, Reason |-> v.reason, Risk |-> "blocked"]
             ELSE IF ns # <<>> /\ IsNamespaceBlocked(ns)
                  THEN [Allowed |-> FALSE, Reason |-> "namespace is blocked", Risk |-> "blocked"]
                  ELSE [Allowed |-> TRUE, Reason |-> v.reason, Risk |-> "low"]

(***************************************************************************)
(* PolicyEvaluator.                                                        *)
(***************************************************************************)
\* riskOrder: the comparable integer of each recognized risk level
riskOrder == [r \in {"low", "medium", "high", "critical"} |->
                 CASE r = "low" -> 0
                   [] r = "medium" -> 1
                   [] r = "high" -> 2
                   [] r = "critical" -> 3]

\* PolicyRepository.GetByEnvironment finding no row
NoPolicy == [found |-> FALSE]

\* PolicyRepository.GetByEnvironment: the row of the environment, or not found
GetByEnvironment(repo, environment) ==
    IF environment \in DOMAIN repo THEN repo[environment] ELSE NoPolicy

\* isRiskAcceptable with a risk missing from riskOrder read as the map's zero value
isRiskAcceptable_ZeroValue(actionRisk, maxRisk) ==
    LET order(x) == IF x \in DOMAIN riskOrder THEN riskOrder[x] ELSE 0
    IN  order(actionRisk) <= order(maxRisk)

\* isRiskAcceptable with the comparison turned around
isRiskAcceptable_Reversed(actionRisk, maxRisk) ==
    IF actionRisk \notin DOMAIN riskOrder \/ maxRisk \notin DOMAIN riskOrder
    THEN FALSE
    ELSE riskOrder[actionRisk] >= riskOrder[maxRisk]

\* isRiskAcceptable: both risks recognized and actionRisk <= maxRisk
isRiskAcceptable(actionRisk, maxRisk) ==
    IF actionRisk \notin DOMAIN riskOrder \/ maxRisk \notin DOMAIN riskOrder
    THEN FALSE
    ELSE riskOrder[actionRisk] <= riskOrder[maxRisk]

\* the lookup-failure decision letting the action run
lookupFailedDecision_AutoExecute ==
    [Allowed |-> TRUE, NeedsApproval |-> FALSE, AutoExecute |-> TRUE,
     Reason |-> "policy lookup failed", Approvers |-> <<>>,
     MaxRiskLevel |-> "low", err |-> FALSE]

\* Evaluate when the policy lookup fails: approval required, and no error
lookupFailedDecision ==
    [Allowed |-> TRUE, NeedsApproval |-> TRUE, AutoExecute |-> FALSE,
     Reason |-> "policy lookup failed", Approvers |-> <<>>,
     MaxRiskLevel |-> "low", err |-> FALSE]

\* the disabled-policy decision with the action still allowed
disabledDecision_Allowed(policy) ==
    [Allowed |-> TRUE, NeedsApproval |-> FALSE, AutoExecute |-> FALSE,
     Reason |-> "policy disabled", Approvers |-> <<>>,
     MaxRiskLevel |-> policy.MaxAutoRisk, err |-> FALSE]

\* Evaluate on a disabled policy: not allowed
disabledDecision(policy) ==
    [Allowed |-> FALSE, NeedsApproval |-> FALSE, AutoExecute |-> FALSE,
     Reason |-> "policy disabled", Approvers |-> <<>>,
     MaxRiskLevel |-> policy.MaxAutoRisk, err |-> FALSE]

\* the approval_required decision without its NeedsApproval flag
approvalRequiredDecision_NoFlag(policy) ==
    [Allowed |-> TRUE, NeedsApproval |-> FALSE, AutoExecute |-> FALSE,
     Reason |-> "approval_required policy", Approvers |-> policy.Approvers,
     MaxRiskLevel |-> policy.MaxAutoRisk, err |-> FALSE]

\* Evaluate under mode approval_required
approvalRequiredDecision(policy) ==
    [Allowed |-> TRUE, NeedsApproval |-> TRUE, AutoExecute |-> FALSE,
     Reason |-> "approval_required policy", Approvers |-> policy.Approvers,
     MaxRiskLevel |-> policy.MaxAutoRisk, err |-> FALSE]

\* PolicyEvaluator.Evaluate: the PolicyDecision and the returned error
Evaluate(repo, environment, action) ==
    LET policy == GetByEnvironment(repo, environment)
        actionRisk == action.Risk
    IN  IF ~policy.found
        THEN lookupFailedDecision
        ELSE IF ~policy.Enabled
        THEN disabledDecision(policy)
        ELSE IF policy.Mode = "auto_fix"
        THEN IF ~isRiskAcceptable(actionRisk, policy.MaxAutoRisk)
             THEN [Allowed |-> TRUE, NeedsApproval |-> TRUE, AutoExecute |-> FALSE,
                   Reason |-> "risk exceeds max auto-risk", Approvers |-> policy.Approvers,
                   MaxRiskLevel |-> policy.MaxAutoRisk, err |-> FALSE]
             ELSE [Allowed |-> TRUE, NeedsApproval |-> FALSE, AutoExecute |-> TRUE,
                   Reason |-> "auto_fix within limit", Approvers |-> <<>>,
                   MaxRiskLevel |-> policy.MaxAutoRisk, err |-> FALSE]
        ELSE IF policy.Mode = "warn_auto"
        THEN IF ~isRiskAcceptable(actionRisk, policy.MaxAutoRisk)
             THEN [Allowed |-> TRUE, NeedsApproval |-> TRUE, AutoExecute |-> FALSE,
                   Reason |-> "warn_auto risk exceeds limit", Approvers |-> policy.Approvers,
                   MaxRiskLevel |-> policy.MaxAutoRisk, err |-> FALSE]
             ELSE [Allowed |-> TRUE, NeedsApproval |-> FALSE, AutoExecute |-> TRUE,
                   Reason |-> "warn_auto executing with warning", Approvers |-> <<>>,
                   MaxRiskLevel |-> policy.MaxAutoRisk, err |-> FALSE]
        ELSE IF policy.Mode = "approval_required"
        THEN approvalRequiredDecision(policy)
        ELSE [Allowed |-> TRUE, NeedsApproval |-> TRUE, AutoExecute |-> FALSE,
              Reason |-> "unknown policy mode", Approvers |-> policy.Approvers,
              MaxRiskLevel |-> policy.MaxAutoRisk, err |-> FALSE]

(***************************************************************************)
(* ActionPlanner.                                                          *)
(***************************************************************************)
\* the K8sExecutor the services are built with in production: Executor
TheExecutor == [impl |-> "Executor", answers |-> <<>>]

\* k8s.ValidateCommand(parts) through the K8sExecutor port: Executor's method, or
\* the answer of a test double that holds one answer for each command
K8sValidate(k8s, parts) ==
    IF k8s.impl = "Executor" THEN ValidateCommand(parts) ELSE k8s.answers[parts]

RECURSIVE validateCommandsFrom(_, _, _, _)
\* the loop of validateCommands from command i on; acc holds the loop's locals
validateCommandsFrom(k8s, commands, i, acc) ==
    IF i > Len(commands) THEN acc
    ELSE LET parts == Fields(commands[i])
             v == K8sValidate(k8s, parts)
         IN  IF Len(parts) = 0
             THEN validateCommandsFrom(k8s, commands, i + 1, acc)
             ELSE IF ~v.Allowed
             THEN validateCommandsFrom(k8s, commands, i + 1,
                      [acc EXCEPT !.denyReason = v.Reason])
             ELSE validateCommandsFrom(k8s, commands, i + 1,
                      [acc EXCEPT !.deniedAll = FALSE,
                                  !.allowed = Append(@, commands[i]),
                                  !.maxRiskVal =
                                      IF v.Risk \in DOMAIN riskOrder /\ riskOrder[v.Risk] > @
                                      THEN riskOrder[v.Risk] ELSE @,
                                  !.maxRisk =
                                      IF v.Risk \in DOMAIN riskOrder
                                         /\ riskOrder[v.Risk] > acc.maxRiskVal
                                      THEN v.Risk ELSE @])

\* validateCommands returning every command of the suggestion whenever one of
\* them was allowed
validateCommands_KeepAll(k8s, commands) ==
    LET acc == validateCommandsFrom(k8s, commands, 1,
                   [allowed |-> <<>>, maxRiskVal |-> -1, maxRisk |-> "",
                    deniedAll |-> TRUE, denyReason |-> ""])
    IN  IF acc.deniedAll /\ Len(commands) > 0
        THEN [allowed |-> <<>>, maxRisk |-> "", denyReason |-> acc.denyReason]
        ELSE [allowed |-> commands,
              maxRisk |-> IF acc.maxRisk = "" THEN "low" ELSE acc.maxRisk,
              denyReason |-> ""]

\* validateCommands without the default for a list that carries no graded risk
validateCommands_NoDefault(k8s, commands) ==
    LET acc == validateCommandsFrom(k8s, commands, 1,
                   [allowed |-> <<>>, maxRiskVal |-> -1, maxRisk |-> "",
                    deniedAll |-> TRUE, denyReason |-> ""])
    IN  IF acc.deniedAll /\ Len(commands) > 0
        THEN [allowed |-> <<>>, maxRisk |-> "", denyReason |-> acc.denyReason]
        ELSE [allowed |-> acc.allowed, maxRisk |-> acc.maxRisk, denyReason |-> ""]

\* ActionPlanner.validateCommands: the allowed commands,
\* the highest risk seen, and a deny reason when all commands were denied
validateCommands(k8s, commands) ==
    LET acc == validateCommandsFrom(k8s, commands, 1,
                   [allowed |-> <<>>, maxRiskVal |-> -1, maxRisk |-> "",
                    deniedAll |-> TRUE, denyReason |-> ""])
    IN  IF acc.deniedAll /\ Len(commands) > 0
        THEN [allowed |-> <<>>, maxRisk |-> "", denyReason |-> acc.denyReason]
        ELSE [allowed |-> acc.allowed,
              maxRisk |-> IF acc.maxRisk = "" THEN "low" ELSE acc.maxRisk,
              denyReason |-> ""]

\* ActionPlanner.toRiskLevel
toRiskLevel(risk) ==
    IF risk \in {"low", "medium", "high", "critical"} THEN risk ELSE "medium"

\* model.NewAction(...).WithEnvironment(env).WithNamespace(ns): a planned action;
\* its generated ID is the alert ID paired with the action's position in the plan
NewAction(alertID, n, commands, risk, env, ns) ==
    [ID |-> <<alertID, n>>, AlertID |-> alertID, Status |-> "planned",
     Commands |-> commands, Risk |-> risk, Output |-> <<>>, ErrorMessage |-> <<>>,
     ApprovedBy |-> "", Environment |-> env, Namespace |-> ns]

RECURSIVE PlanFrom(_, _, _, _, _, _, _)
\* the loop of Plan taking the risk of an action from the suggestion
PlanFrom_DeclaredRisk(k8s, alertID, suggestions, env, ns, i, actions) ==
    IF i > Len(suggestions) THEN actions
    ELSE LET r == validateCommands(k8s, suggestions[i].Commands)
         IN  IF r.denyReason # "" \/ Len(r.allowed) = 0
             THEN PlanFrom(k8s, alertID, suggestions, env, ns, i + 1, actions)
             ELSE PlanFrom(k8s, alertID, suggestions, env, ns, i + 1,
                      Append(actions,
                             NewAction(alertID, Len(actions) + 1, r.allowed,
                                       toRiskLevel(suggestions[i].Risk), env, ns)))

\* the loop of Plan from suggestion i on; actions holds the actions built so far
PlanFrom(k8s, alertID, suggestions, env, ns, i, actions) ==
    IF i > Len(suggestions) THEN actions
    ELSE LET r == validateCommands(k8s, suggestions[i].Commands)
         IN  IF r.denyReason # "" \/ Len(r.allowed) = 0
             THEN PlanFrom(k8s, alertID, suggestions, env, ns, i + 1, actions)
             ELSE PlanFrom(k8s, alertID, suggestions, env, ns, i + 1,
                      Append(actions,
                             NewAction(alertID, Len(actions) + 1, r.allowed,
                                       toRiskLevel(r.maxRisk), env, ns)))

\* ActionPlanner.Plan: one planned action for each suggestion that keeps a command
Plan(k8s, alertID, suggestions, env, ns) ==
    PlanFrom(k8s, alertID, suggestions, env, ns, 1, <<>>)

(***************************************************************************)
(* Analyzer.                                                               *)
(***************************************************************************)
maxFollowUpIterations == 3

\* llm.Diagnose: the answer of the diagnosis provider to its n-th call; llm is
\* the list of its answers, the last one repeated for every later call
Diagnose(llm, n) == llm[IF n > Len(llm) THEN Len(llm) ELSE n]

RECURSIVE runFollowUpQueriesFrom(_, _, _, _)
\* the loop of runFollowUpQueries from query i on: DescribeResource for each
\* query, an error becoming a part like a description; failing holds the
\* queries the cluster cannot describe
runFollowUpQueriesFrom(failing, queries, i, parts) ==
    IF i > Len(queries) THEN parts
    ELSE runFollowUpQueriesFrom(failing, queries, i + 1,
             Append(parts, [kind |-> "Describe", query |-> queries[i],
                            err |-> queries[i] \in failing]))

\* Analyzer.runFollowUpQueries: the parts, and an error when there are none
runFollowUpQueries(failing, queries) ==
    [parts |-> runFollowUpQueriesFrom(failing, queries, 1, <<>>),
     err |-> Len(queries) = 0]

\* the record of a Diagnose call in the trace of AnalyzeAlert
DiagnoseCall(answer) == [kind |-> "Diagnose", query |-> "", err |-> answer.err]

RECURSIVE followUpFrom(_, _, _, _)
\* the re-invoked diagnosis failing without ending AnalyzeAlert: the loop stops
\* and the previous diagnosis is kept
afterFollowUpDiagnose_Swallow(llm, failing, i, acc, answer) ==
    IF answer.err
    THEN [acc EXCEPT !.trace = Append(@, DiagnoseCall(answer)), !.diagnoses = @ + 1]
    ELSE followUpFrom(llm, failing, i + 1,
             [acc EXCEPT !.result = answer, !.trace = Append(@, DiagnoseCall(answer)),
                         !.diagnoses = @ + 1])

\* the follow-up loop after the re-invoked diagnosis answered: a failure ends
\* AnalyzeAlert with the error, else the next round starts from the answer
afterFollowUpDiagnose(llm, failing, i, acc, answer) ==
    IF answer.err
    THEN [acc EXCEPT !.err = TRUE, !.trace = Append(@, DiagnoseCall(answer)),
                     !.diagnoses = @ + 1]
    ELSE followUpFrom(llm, failing, i + 1,
             [acc EXCEPT !.result = answer, !.trace = Append(@, DiagnoseCall(answer)),
                         !.diagnoses = @ + 1])

\* the follow-up loop after runFollowUpQueries returned queried: on its error
\* the error is appended to the context and the loop stops, else the parts are
\* appended and the diagnosis is invoked again
afterFollowUpQueries(llm, failing, i, acc, queried) ==
    IF queried.err
    THEN [acc EXCEPT !.context = Append(@, [text |-> "follow-up query error",
                                            parts |-> <<>>])]
    ELSE afterFollowUpDiagnose(llm, failing, i,
             [acc EXCEPT !.context = Append(@, [text |-> "follow-up",
                                                parts |-> queried.parts]),
                         !.trace = @ \o queried.parts],
             Diagnose(llm, acc.diagnoses + 1))

\* the follow-up loop running one round more than maxFollowUpIterations
followUpFrom_OneMore(llm, failing, i, acc) ==
    IF ~(i <= maxFollowUpIterations /\ acc.result.NeedsMoreInfo
            /\ Len(acc.result.FollowUpQueries) > 0)
    THEN acc
    ELSE afterFollowUpQueries(llm, failing, i, acc,
             runFollowUpQueries(failing, acc.result.FollowUpQueries))

\* the follow-up loop of AnalyzeAlert from round i (counted from 0) on
followUpFrom(llm, failing, i, acc) ==
    IF ~(i < maxFollowUpIterations /\ acc.result.NeedsMoreInfo
            /\ Len(acc.result.FollowUpQueries) > 0)
    THEN acc
    ELSE afterFollowUpQueries(llm, failing, i, acc,
             runFollowUpQueries(failing, acc.result.FollowUpQueries))

\* AnalyzeAlert once the loop ended as looped: the error, or the suggested
\* actions of the last diagnosis
finishAnalysis(looped) ==
    [err |-> looped.err,
     suggestions |-> IF looped.err THEN <<>> ELSE looped.result.SuggestedActions,
     trace |-> looped.trace, context |-> looped.context, diagnoses |-> looped.diagnoses]

\* AnalyzeAlert after the first diagnosis answered
afterFirstDiagnose(llm, failing, k8sCtx, answer) ==
    IF answer.err
    THEN [err |-> TRUE, suggestions |-> <<>>, trace |-> <<DiagnoseCall(answer)>>,
          context |-> <<k8sCtx>>, diagnoses |-> 1]
    ELSE finishAnalysis(followUpFrom(llm, failing, 0,
             [result |-> answer, err |-> FALSE, trace |-> <<DiagnoseCall(answer)>>,
              context |-> <<k8sCtx>>, diagnoses |-> 1]))

\* Analyzer.AnalyzeAlert: gathers the cluster context (a failure is not fatal),
\* asks for a diagnosis and runs the follow-up rounds
AnalyzeAlert(llm, failing, gather) ==
    afterFirstDiagnose(llm, failing,
                       [text |-> IF gather = "err" THEN "partial k8s context"
                                                   ELSE "k8s context",
                        parts |-> <<>>],
                       Diagnose(llm, 1))

(***************************************************************************)
(* State.                                                                  *)
(***************************************************************************)
VARIABLES
    policies,     \* policy store: environment -> EnvironmentPolicy row
    alertStore,   \* alerts table: alert ID -> persisted Alert
    actionStore,  \* actions table: action ID -> persisted Action
    execCount,    \* action ID -> Exec calls made for its commands so far
    lastCall,     \* the last handler call: its request, the error it returned,
                  \* and the audit rows, notifications, Exec calls and policy
                  \* decisions it made, in order
    nApprovals,   \* HandleApproval calls made so far
    wlCommand,    \* whitelist check: the command string under validation
    wlResult,     \* whitelist check: the CommandValidation obtained for it
    evalAction,   \* policy check: the action under evaluation
    evalResult,   \* policy check: the environment evaluated and the decision
    k8sCall,      \* executor check: the call made on the Executor
    k8sResult,    \* executor check: what the call returned and sent to the cluster
    planCall,     \* planner check: the planner's K8sExecutor and the suggestions
    planResult,   \* planner check: the actions Plan returned
    anCall,       \* analyzer check: the behaviour of the diagnosis provider and
                  \* of the cluster during one AnalyzeAlert
    anResult,     \* analyzer check: what AnalyzeAlert returned and the calls it made
    auditDown,    \* the audit writes of a handler call that fail, by position
    threadStore,  \* conversations table: its rows, the oldest first
    inFlight      \* concurrent handler calls: call -> its position and local values

vars == <<policies, alertStore, actionStore, execCount, lastCall, nApprovals,
          wlCommand, wlResult, evalAction, evalResult, k8sCall, k8sResult,
          planCall, planResult,
          anCall, anResult, auditDown, threadStore, inFlight>>

\* the elements of a sequence
Range(seq) == {seq[k] : k \in DOMAIN seq}

\* a table with no rows
EmptyTable == [x \in {} |-> x]

\* no handler call in flight
NoCalls == EmptyTable

\* INSERT / UPDATE of one row
Put(table, id, row) == [x \in DOMAIN table \cup {id} |-> IF x = id THEN row ELSE table[x]]

(***************************************************************************)
(* Orchestrator.                                                           *)
(***************************************************************************)
\* model.NewAuditLog(eventType, alertID, actor, ...).WithActionID(actionID)
NewAuditLog(eventType, alertID, actor, actionID) ==
    [EventType |-> eventType, AlertID |-> alertID, Actor |-> actor, ActionID |-> actionID]

\* the action ID of an audit entry that names no action
NoAction == <<>>

\* a request sent to the cluster: kubectl exec, or a call of the clientset
ClusterOp(verb, namespace) == [verb |-> verb, Namespace |-> namespace]

\* no AnalyzeAlert observed yet
NoAnCall == [llm |-> <<>>, failing |-> {}, gather |-> "ok"]

\* no call made on the planner yet
NoPlanCall == [k8s |-> TheExecutor, suggestions |-> <<>>]

\* no call made on the Executor yet
NoK8sCall ==
    [op |-> "none", Namespace |-> <<>>, Name |-> "", Command |-> <<>>, Replicas |-> 0,
     outcome |-> "ok"]

\* Executor.Exec: denied by the whitelist or the blocked namespace before
\* anything runs; otherwise the command's outcome in the cluster
Exec(namespace, command, outcome) ==
    IF ~ValidateExecCommand(command).allowed \/ IsNamespaceBlocked(namespace)
    THEN [err |-> TRUE, ExitCode |-> 1, ops |-> <<>>]
    ELSE IF outcome = "err"
    THEN [err |-> TRUE, ExitCode |-> 1, ops |-> <<ClusterOp("exec", namespace)>>]
    ELSE IF outcome = "exit"
    THEN [err |-> FALSE, ExitCode |-> 1, ops |-> <<ClusterOp("exec", namespace)>>]
    ELSE [err |-> FALSE, ExitCode |-> 0, ops |-> <<ClusterOp("exec", namespace)>>]

\* ScaleDeployment patching without looking at the namespace
ScaleDeployment_NoCheck(namespace, name, replicas, outcome) ==
    [err |-> outcome = "err", ops |-> <<ClusterOp("patch", namespace)>>]

\* Executor.RestartDeployment: denied in a blocked namespace, else one patch of
\* the deployment, which the API server may refuse
RestartDeployment(namespace, name, outcome) ==
    IF IsNamespaceBlocked(namespace)
    THEN [err |-> TRUE, ops |-> <<>>]
    ELSE [err |-> outcome = "err", ops |-> <<ClusterOp("patch", namespace)>>]

\* Executor.ScaleDeployment: denied in a blocked namespace, else one patch of
\* the deployment's replicas
ScaleDeployment(namespace, name, replicas, outcome) ==
    IF IsNamespaceBlocked(namespace)
    THEN [err |-> TRUE, ops |-> <<>>]
    ELSE [err |-> outcome = "err", ops |-> <<ClusterOp("patch", namespace)>>]

\* Executor.DeletePod: denied in a blocked namespace, else one delete of the pod
DeletePod(namespace, name, outcome) ==
    IF IsNamespaceBlocked(namespace)
    THEN [err |-> TRUE, ops |-> <<>>]
    ELSE [err |-> outcome = "err", ops |-> <<ClusterOp("delete", namespace)>>]

\* the ways the commands of an action can go in the cluster: all exit zero, or
\* command `at` is the first to exit non-zero ("exit") or to fail to run ("err")
ExecOutcomes(n) ==
    {[kind |-> "ok", at |-> 0]} \cup
    {[kind |-> k, at |-> i] : k \in {"exit", "err"}, i \in 1..n}

\* what the cluster does with command i under the outcome o
OutcomeAt(o, i) == IF o.at = i THEN o.kind ELSE "ok"

RECURSIVE runCommands(_, _, _, _, _)
\* the body of the command loop going on to the next command after a failure
afterExec_NoBreak(action, by, o, i, acc, result) ==
    LET called == Append(acc.calls,
                         [ActionID |-> action.ID, Cmd |-> i,
                          Command |-> Fields(action.Commands[i]), By |-> by,
                          err |-> result.err, ExitCode |-> result.ExitCode])
    IN  IF result.err
        THEN runCommands(action, by, o, i + 1,
                 [acc EXCEPT !.calls = called,
                             !.execErr = <<[Cmd |-> i, Kind |-> "exec error"]>>,
                             !.outputs = Append(@, "ERROR")])
        ELSE IF result.ExitCode # 0
        THEN runCommands(action, by, o, i + 1,
                 [acc EXCEPT !.calls = called,
                             !.execErr = <<[Cmd |-> i, Kind |-> "exit code"]>>,
                             !.outputs = Append(@, "EXIT")])
        ELSE runCommands(action, by, o, i + 1,
                 [acc EXCEPT !.calls = called,
                             !.outputs = Append(@, "STDOUT")])

\* the body of executeAction's command loop after Exec answered command i with
\* result: logs the call, stops at an error or a non-zero exit code, else goes on
afterExec(action, by, o, i, acc, result) ==
    LET called == Append(acc.calls,
                         [ActionID |-> action.ID, Cmd |-> i,
                          Command |-> Fields(action.Commands[i]), By |-> by,
                          err |-> result.err, ExitCode |-> result.ExitCode])
    IN  IF result.err
        THEN [acc EXCEPT !.calls = called,
                         !.execErr = <<[Cmd |-> i, Kind |-> "exec error"]>>,
                         !.outputs = Append(@, "ERROR")]
        ELSE IF result.ExitCode # 0
        THEN [acc EXCEPT !.calls = called,
                         !.execErr = <<[Cmd |-> i, Kind |-> "exit code"]>>,
                         !.outputs = Append(@, "EXIT")]
        ELSE runCommands(action, by, o, i + 1,
                 [acc EXCEPT !.calls = called,
                             !.outputs = Append(@, "STDOUT")])

\* the command loop of executeAction from command i on
runCommands(action, by, o, i, acc) ==
    IF i > Len(action.Commands) THEN acc
    ELSE afterExec(action, by, o, i, acc,
                   Exec(action.Namespace, Fields(action.Commands[i]), OutcomeAt(o, i)))

\* the end of executeAction, after the command loop ended as run: Fail or
\* Complete, the audit entry and the notification
finishAction(executing, run) ==
    LET failed == run.execErr # <<>>
    IN  [action |-> IF failed
                    THEN [executing EXCEPT !.Status = "failed",
                                           !.ErrorMessage = run.execErr]
                    ELSE [executing EXCEPT !.Status = "completed",
                                           !.Output = run.outputs],
         err |-> failed,
         calls |-> run.calls,
         audit |-> NewAuditLog(IF failed THEN "action_failed" ELSE "action_completed",
                               executing.AlertID, "system", executing.ID),
         note |-> [Kind |-> "NotifyAction", ActionID |-> executing.ID,
                   Status |-> IF failed THEN "failed" ELSE "completed",
                   Output |-> run.outputs]]

\* Orchestrator.executeAction: marks the action executing, runs its commands in
\* order up to the first failure, then fails or completes it, audits and notifies
executeAction(action, by, o) ==
    finishAction([action EXCEPT !.Status = "executing"],
                 runCommands([action EXCEPT !.Status = "executing"], by, o, 1,
                             [calls |-> <<>>, execErr |-> <<>>, outputs |-> <<>>]))

\* ActionRepo.UpdateStatus: sets status and output of the row with this ID
UpdateStatus(table, id, status, output) ==
    IF id \in DOMAIN table
    THEN [err |-> FALSE, table |-> [table EXCEPT ![id].Status = status, ![id].Output = output]]
    ELSE [err |-> TRUE, table |-> table]

\* the collaborator failures that end HandleAlert before planning
EarlyFaults ==
    {"create_alert", "notify_alert", "update_thread", "update_analyzing",
     "analyze", "create_analysis"}

\* how the per-action collaborators answer for one planned action: whether
\* Actions.Create succeeds, and the outcome of the commands if they are run
FatesOf(action, decision) ==
    IF decision.Allowed /\ ~decision.NeedsApproval
    THEN {[create |-> "fail", exec |-> [kind |-> "ok", at |-> 0]]} \cup
         {[create |-> "ok", exec |-> o] : o \in ExecOutcomes(Len(action.Commands))}
    ELSE {[create |-> c, exec |-> [kind |-> "ok", at |-> 0]] : c \in {"ok", "fail"}}

RECURSIVE FateSeqs(_, _, _, _)
\* one fate for each action of the plan from action i on
FateSeqs(repo, env, plan, i) ==
    IF i > Len(plan) THEN {<<>>}
    ELSE {<<f>> \o rest : f \in FatesOf(plan[i], Evaluate(repo, env, plan[i])),
                          rest \in FateSeqs(repo, env, plan, i + 1)}

\* the threaded state of one handler call: the stores as the call finds them
\* and the call's own logs, empty at its start
OrchState ==
    [alerts |-> alertStore, actions |-> actionStore, audits |-> <<>>,
     notes |-> <<>>, execs |-> <<>>, decisions |-> EmptyTable,
     alertWrites |-> <<>>, loaded |-> "", creates |-> <<>>,
     threads |-> threadStore, auditDown |-> auditDown,
     auditWrites |-> 0, auditErrors |-> 0, actionWrites |-> <<>>]

\* logAudit: Audits.Create appends the entry to the audit table; when the write
\* fails the error goes to the logger and nothing else happens
logAudit(st, entry) ==
    IF st.auditWrites + 1 \in st.auditDown
    THEN [st EXCEPT !.auditWrites = @ + 1, !.auditErrors = @ + 1]
    ELSE [st EXCEPT !.auditWrites = @ + 1, !.audits = Append(@, entry)]

\* the call's log of the statuses it wrote to the actions table, each with the
\* number of Exec calls made before the write
wroteAction(st, id, status) ==
    Append(st.actionWrites, [ActionID |-> id, Status |-> status, after |-> Len(st.execs)])

\* ActionRepo.Create: inserts the action's row
insertAction(st, action) ==
    [st EXCEPT !.actions = Put(@, action.ID, action),
               !.actionWrites = wroteAction(st, action.ID, action.Status)]

\* ActionRepo.UpdateStatus on the state: nothing is written for an unknown ID
setStatus(st, id, status, output) ==
    IF id \in DOMAIN st.actions
    THEN [st EXCEPT !.actions = UpdateStatus(@, id, status, output).table,
                    !.actionWrites = wroteAction(st, id, status)]
    ELSE st

\* AlertRepo.Create / AlertRepo.Update: writes the alert's row; the call's log
\* keeps the status each write persisted
saveAlert(st, alert) ==
    [st EXCEPT !.alerts = Put(@, alert.ID, alert),
               !.alertWrites = Append(@, alert.Status)]

\* the state after an executeAction that sent no notification of the outcome
recordExecution_NoNotify(st, executed) ==
    setStatus([logAudit(st, executed.audit) EXCEPT !.execs = @ \o executed.calls],
              executed.action.ID, executed.action.Status, executed.action.Output)

\* the state after executeAction returned executed: its Exec calls, audit entry
\* and notification, then UpdateStatus with the final status and output
recordExecution(st, executed) ==
    setStatus([logAudit(st, executed.audit) EXCEPT !.execs = @ \o executed.calls,
                                                   !.notes = Append(@, executed.note)],
              executed.action.ID, executed.action.Status, executed.action.Output)

\* the auto-execute branch without the UpdateStatus that follows executeAction
autoExecuted_NoUpdate(st, allResolved, executed) ==
    [st |-> [logAudit(st, executed.audit) EXCEPT
                       !.execs = @ \o executed.calls,
                       !.notes = Append(@, executed.note)],
     allResolved |-> allResolved /\ ~executed.err]

\* the auto-execute branch persisting the action as executing before its outcome
autoExecuted_MarksExecuting(st, allResolved, executed) ==
    [st |-> recordExecution(setStatus(st, executed.action.ID, "executing", <<>>),
                            executed),
     allResolved |-> allResolved /\ ~executed.err]

\* the auto-execute branch of the action loop once executeAction returned
autoExecuted(st, allResolved, executed) ==
    [st |-> recordExecution(st, executed), allResolved |-> allResolved /\ ~executed.err]

\* the approval branch persisting the action as pending without asking anyone
pendingApproval_NoRequest(st, action) ==
    insertAction(st, [action EXCEPT !.Status = "pending"])

\* the approval branch of the action loop once Actions.Create succeeded: the
\* action is stored as pending and RequestApproval is sent
pendingApproval(st, action) ==
    [insertAction(st, [action EXCEPT !.Status = "pending"]) EXCEPT
        !.notes = Append(@, [Kind |-> "RequestApproval", ActionID |-> action.ID,
                             Status |-> "pending", Output |-> <<>>])]

\* the body of the action loop for one planned action, once Evaluate returned
\* decision: reject, request approval or auto-execute; r carries the state and
\* allResolved
handleDecision(action, fate, r, decision) ==
    LET createOK == fate.create = "ok" /\ action.ID \notin DOMAIN r.st.actions
        evaluated == [logAudit(r.st, NewAuditLog("policy_evaluated", action.AlertID,
                                                 "system", action.ID))
                         EXCEPT !.decisions = Put(@, action.ID, decision),
                                !.creates = Append(@, [ActionID |-> action.ID,
                                                       ok |-> createOK])]
    IN  IF decision.err
        THEN [r EXCEPT !.allResolved = FALSE]
        ELSE IF ~decision.Allowed
        THEN [r EXCEPT !.st =
                 IF createOK
                 THEN insertAction(evaluated, [action EXCEPT !.Status = "rejected"])
                 ELSE evaluated]
        ELSE IF decision.NeedsApproval
        THEN IF ~createOK
             THEN [st |-> evaluated, allResolved |-> FALSE]
             ELSE [st |-> pendingApproval(evaluated, action), allResolved |-> FALSE]
        ELSE IF ~createOK
        THEN [st |-> evaluated, allResolved |-> FALSE]
        ELSE autoExecuted(insertAction(evaluated, action),
                          r.allResolved,
                          executeAction(action, "HandleAlert", fate.exec))

RECURSIVE actionLoop(_, _, _, _, _, _)
\* step 6 of HandleAlert, from planned action i on: evaluate the policy of each
\* action and handle the decision
actionLoop(repo, alert, plan, fates, i, r) ==
    IF i > Len(plan) THEN r
    ELSE actionLoop(repo, alert, plan, fates, i + 1,
                    handleDecision(plan[i], fates[i], r,
                                   Evaluate(repo, alert.Environment, plan[i])))

\* step 7 of HandleAlert leaving the alert in the status of the action loop
finalUpdate_KeepsActing(alert, looped) == saveAlert(looped.st, alert)

\* step 7 of HandleAlert: resolved when every action was resolved, then the
\* final update of the alert
finalUpdate(alert, looped) ==
    saveAlert(looped.st, IF looped.allResolved THEN [alert EXCEPT !.Status = "resolved"]
                                               ELSE alert)

\* Orchestrator.HandleAlert on the state st: the alert as delivered, the first
\* failing early collaborator call (or "none"), the plan that step 5 (Plan)
\* made of the analysis' suggestions and the fates of the planned actions.
\* Yields the new state and whether an error was returned.
HandleAlertOn(repo, st, alert, fault, plan, fates) ==
    LET saved == saveAlert(st, alert)
        notified == [saved EXCEPT !.notes =
                        Append(@, [Kind |-> "NotifyAlert", ActionID |-> NoAction,
                                   Status |-> alert.Status, Output |-> <<>>])]
        withThread == [alert EXCEPT !.ThreadID = "thread"]
        threaded == logAudit(saveAlert(notified, withThread),
                             NewAuditLog("alert_received", alert.ID, "system", NoAction))
        analyzing == [withThread EXCEPT !.Status = "analyzing"]
        started == logAudit(saveAlert(threaded, analyzing),
                            NewAuditLog("analysis_started", alert.ID, "system", NoAction))
        failed == [analyzing EXCEPT !.Status = "failed"]
        analyzed == logAudit(started,
                             NewAuditLog("analysis_completed", alert.ID, "system", NoAction))
        acting == [analyzing EXCEPT !.Status = "acting"]
        planned == saveAlert([analyzed EXCEPT
                                 !.notes = Append(@, [Kind |-> "NotifyAnalysis",
                                                      ActionID |-> NoAction,
                                                      Status |-> "analyzing",
                                                      Output |-> <<>>])],
                             acting)
    IN  IF fault = "create_alert" \/ alert.ID \in DOMAIN st.alerts
        THEN [st |-> st, err |-> TRUE]
        ELSE IF fault = "notify_alert" THEN [st |-> saved, err |-> TRUE]
        ELSE IF fault = "update_thread" THEN [st |-> notified, err |-> TRUE]
        ELSE IF fault = "update_analyzing" THEN [st |-> threaded, err |-> TRUE]
        ELSE IF fault = "analyze"
        THEN [st |-> saveAlert(started, failed), err |-> TRUE]
        ELSE IF fault = "create_analysis" THEN [st |-> started, err |-> TRUE]
        ELSE [st |-> finalUpdate(acting,
                                 actionLoop(repo, acting, plan, fates, 1,
                                            [st |-> planned, allResolved |-> TRUE])),
              err |-> FALSE]

\* the approve branch of processApproval once executeAction returned executed:
\* on an execution error it returns before the final UpdateStatus
approvedAndExecuted(st, executed) ==
    IF executed.err
    THEN [st |-> [logAudit([st EXCEPT !.execs = @ \o executed.calls], executed.audit)
                     EXCEPT !.notes = Append(@, executed.note)],
          err |-> TRUE]
    ELSE [st |-> recordExecution(st, executed), err |-> FALSE]

\* the reject branch running the action's commands before it is marked rejected
rejectedByUser_Executes(st, loaded, approvedBy) ==
    [st |-> logAudit(setStatus(recordExecution(st, executeAction(loaded, "HandleApproval",
                                                                 [kind |-> "ok", at |-> 0])),
                               loaded.ID, "rejected", <<>>),
                     NewAuditLog("action_rejected", loaded.AlertID, approvedBy,
                                 loaded.ID)),
     err |-> FALSE]

\* the reject branch of processApproval: UpdateStatus to rejected, then the
\* action_rejected audit entry
rejectedByUser(st, loaded, approvedBy) ==
    [st |-> logAudit(setStatus(st, loaded.ID, "rejected", <<>>),
                     NewAuditLog("action_rejected", loaded.AlertID, approvedBy,
                                 loaded.ID)),
     err |-> FALSE]

\* processApproval refusing every user but the approver of prod
processApproval_ChecksApprover(st, actionID, approved, approvedBy, o) ==
    IF actionID \notin DOMAIN st.actions
    THEN [st |-> st, err |-> TRUE]
    ELSE IF approvedBy # "@oncall-team"
    THEN [st |-> [st EXCEPT !.loaded = st.actions[actionID].Status], err |-> TRUE]
    ELSE IF approved
    THEN approvedAndExecuted(
             logAudit(setStatus([st EXCEPT !.loaded = st.actions[actionID].Status],
                                actionID, "approved", <<>>),
                      NewAuditLog("action_approved", st.actions[actionID].AlertID,
                                  approvedBy, actionID)),
             executeAction([st.actions[actionID] EXCEPT !.Status = "approved",
                                                        !.ApprovedBy = approvedBy],
                           "HandleApproval", o))
    ELSE rejectedByUser([st EXCEPT !.loaded = st.actions[actionID].Status],
                        st.actions[actionID], approvedBy)

\* Orchestrator.processApproval on the state st: loads the action by ID, then
\* approves and executes it, or rejects it, whatever status it was loaded in
processApproval(st, actionID, approved, approvedBy, o) ==
    IF actionID \notin DOMAIN st.actions
    THEN [st |-> st, err |-> TRUE]
    ELSE
    LET loaded == st.actions[actionID]
        s0 == [st EXCEPT !.loaded = loaded.Status]
    IN  IF approved
        THEN approvedAndExecuted(
                 logAudit(setStatus(s0, actionID, "approved", <<>>),
                          NewAuditLog("action_approved", loaded.AlertID, approvedBy,
                                      actionID)),
                 executeAction([loaded EXCEPT !.Status = "approved",
                                              !.ApprovedBy = approvedBy],
                               "HandleApproval", o))
        ELSE rejectedByUser(s0, loaded, approvedBy)

\* ConversationThread.AddMessage: the log with one more message at its end
AddMessage(thread, role, content, userID) ==
    [thread EXCEPT !.Messages =
        Append(@, [Role |-> role, Content |-> content, UserID |-> userID])]

\* model.NewConversationThread with the freshly generated row ID id
NewConversationThread(id, alertID, threadID) ==
    [ID |-> id, AlertID |-> alertID, ThreadID |-> threadID, Messages |-> <<>>]

\* the rows of the conversations table with this transport thread ID
RowsOf(threads, threadID) == {k \in DOMAIN threads : threads[k].ThreadID = threadID}

\* ConversationRepo.GetByThreadID: the newest row of the thread ID, 0 when the
\* table holds none or the query fails
GetByThreadID(threads, threadID, lookup) ==
    IF lookup = "err" \/ RowsOf(threads, threadID) = {} THEN 0
    ELSE CHOOSE k \in RowsOf(threads, threadID) :
            \A j \in RowsOf(threads, threadID) : j <= k

\* ConversationRepo.Update: replaces the row that has the thread's ID
UpdateThread(st, thread) == [st EXCEPT !.threads[thread.ID] = thread]

\* what HandleMessage returns with an error
MessageError(st) == [st |-> st, err |-> TRUE, reply |-> ""]

\* the end of HandleMessage with an audit write that failed failing the call
finishMessage_AuditFatal(st, req, reply) ==
    [st |-> logAudit(st, NewAuditLog("conversation_message", req.AlertID,
                                     req.UserID, NoAction)),
     err |-> st.auditWrites + 1 \in st.auditDown,
     reply |-> IF st.auditWrites + 1 \in st.auditDown THEN "" ELSE reply]

\* the end of HandleMessage: the audit entry, then the reply
finishMessage(st, req, reply) ==
    [st |-> logAudit(st, NewAuditLog("conversation_message", req.AlertID,
                                     req.UserID, NoAction)),
     err |-> FALSE, reply |-> reply]

\* HandleMessage once it holds the thread: the user message is appended, the
\* analyzer converses, the reply is appended and the thread is written back
converse(st, req, fault, reply, thread) ==
    IF fault \in {"converse", "update_thread"} THEN MessageError(st)
    ELSE finishMessage(
             UpdateThread(st, AddMessage(AddMessage(thread, "user", req.Text, req.UserID),
                                         "assistant", reply, "system")),
             req, reply)

\* HandleMessage starting a new thread: Conversations.Create inserts its row
createThread(st, req, fault, reply) ==
    IF fault = "create_thread" THEN MessageError(st)
    ELSE converse([st EXCEPT !.threads =
                       Append(@, NewConversationThread(Len(st.threads) + 1,
                                                       req.AlertID, req.ThreadID))],
                  req, fault, reply,
                  NewConversationThread(Len(st.threads) + 1, req.AlertID, req.ThreadID))

\* HandleMessage after GetByThreadID answered with row found (0: an error)
afterGetByThreadID(st, req, fault, reply, found) ==
    IF found = 0 THEN createThread(st, req, fault, reply)
    ELSE converse(st, req, fault, reply, st.threads[found])

\* Orchestrator.HandleMessage on the state st; lookup and fault say which
\* collaborator call fails, reply is what the provider answers
HandleMessageOn(st, req, lookup, fault, reply) ==
    afterGetByThreadID(st, req, fault, reply,
                       GetByThreadID(st.threads, req.ThreadID, lookup))

RECURSIVE receiveAlertsFrom(_, _, _, _)
\* the loop of ReceiveAlerts giving up at the first alert that failed
afterHandleAlert_StopAtError(repo, batch, i, acc, handled) ==
    IF handled.err
    THEN [st |-> handled.st, errs |-> Append(acc.errs, batch[i].alert.ID),
          handled |-> Append(acc.handled, [ID |-> batch[i].alert.ID, err |-> TRUE])]
    ELSE receiveAlertsFrom(repo, batch, i + 1,
             [st |-> handled.st, errs |-> acc.errs,
              handled |-> Append(acc.handled,
                                 [ID |-> batch[i].alert.ID, err |-> FALSE])])

\* the loop of ReceiveAlerts after HandleAlert returned handled for alert i: an
\* error is collected under the alert's ID, and the loop goes on
afterHandleAlert(repo, batch, i, acc, handled) ==
    receiveAlertsFrom(repo, batch, i + 1,
        [st |-> handled.st,
         errs |-> IF handled.err THEN Append(acc.errs, batch[i].alert.ID) ELSE acc.errs,
         handled |-> Append(acc.handled,
                            [ID |-> batch[i].alert.ID, err |-> handled.err])])

\* the loop of ReceiveAlerts from alert i on; each entry of batch holds an alert
\* and how its collaborators answer
receiveAlertsFrom(repo, batch, i, acc) ==
    IF i > Len(batch) THEN acc
    ELSE afterHandleAlert(repo, batch, i, acc,
             HandleAlertOn(repo, acc.st, batch[i].alert, batch[i].fault,
                           batch[i].plan, batch[i].fates))

\* the end of ReceiveAlerts: one joined error when an alert failed
joinErrors(looped) ==
    [st |-> looped.st, err |-> Len(looped.errs) > 0, errs |-> looped.errs,
     handled |-> looped.handled]

\* Orchestrator.ReceiveAlerts on the state st
ReceiveAlertsOn(repo, st, batch) ==
    joinErrors(receiveAlertsFrom(repo, batch, 1,
                                 [st |-> st, errs |-> <<>>, handled |-> <<>>]))

(***************************************************************************)
(* Inputs of the orchestrator's handlers.                                  *)
(***************************************************************************)
\* the policy rows of the deployment: the configured environments, plus one
\* environment whose policy is disabled; "qa" has no row
DefaultPolicies ==
    [e \in {"dev", "staging", "prod", "sandbox"} |->
        CASE e = "dev" ->
               [found |-> TRUE, Enabled |-> TRUE, Mode |-> "auto_fix",
                MaxAutoRisk |-> "medium", Approvers |-> <<>>]
          [] e = "staging" ->
               [found |-> TRUE, Enabled |-> TRUE, Mode |-> "warn_auto",
                MaxAutoRisk |-> "medium", Approvers |-> <<>>]
          [] e = "prod" ->
               [found |-> TRUE, Enabled |-> TRUE, Mode |-> "approval_required",
                MaxAutoRisk |-> "low", Approvers |-> <<"@oncall-team">>]
          [] e = "sandbox" ->
               [found |-> TRUE, Enabled |-> FALSE, Mode |-> "auto_fix",
                MaxAutoRisk |-> "medium", Approvers |-> <<>>]]

\* the environments an alert may name
Envs == {"dev", "prod", "sandbox", "qa"}

\* the commands the diagnosis may suggest: `ls` and `ps` pass the whitelist,
\* `rm` does not
CmdLs == <<"l", "s">>
CmdPs == <<"p", "s">>
CmdRm == <<"r", "m">>

\* the namespace of the alerts
NsDefault == <<"d", "e", "f", "a", "u", "l", "t">>

\* the command lists of one suggestion: one or two commands, all allowed, all
\* denied, or partly denied
CommandLists == {<<CmdLs>>, <<CmdLs, CmdPs>>, <<CmdRm>>, <<CmdRm, CmdLs>>}

\* the suggestion lists a diagnosis may return
SuggestionLists ==
    UNION {[1..n -> [Commands : CommandLists]] : n \in 0..MaxSuggestions}

\* the alerts ingestion may deliver: new alerts, and alerts a parser already
\* marked resolved (grafanaStatusFromV2, amStatusFromString)
IncomingAlerts ==
    [ID : {"alert-1"}, Status : {"received", "resolved"}, ThreadID : {""},
     Environment : Envs, Namespace : {NsDefault}]

\* the users whose approve / reject clicks reach HandleApproval
Users == {"alice"}

\* the action IDs an approval request may carry: any planned ID, or an unknown one
ApprovalIDs == {<<"alert-1", n>> : n \in 1..MaxSuggestions} \cup {<<"nope", 0>>}

\* the record of a handler call at its start
NewCall(op, id, approved) ==
    [op |-> op, id |-> id, approved |-> approved, err |-> FALSE, audits |-> <<>>,
     notes |-> <<>>, execs |-> <<>>, decisions |-> EmptyTable,
     alertWrites |-> <<>>, loaded |-> "", creates |-> <<>>,
     errs |-> <<>>, handled |-> <<>>, input |-> EmptyTable, reply |-> "",
     auditErrors |-> 0, actionWrites |-> <<>>]

\* no handler call yet
NoCall == NewCall("none", <<>>, FALSE)

(***************************************************************************)
(* Actions of the orchestrator.                                            *)
(***************************************************************************)
\* the exec calls of the log that were made for the action id
execsOf(execs, id) == Cardinality({k \in DOMAIN execs : execs[k].ActionID = id})

\* the state after a handler call that produced r
Commit(r, call) ==
    \E done \in {r} :
       /\ alertStore' = done.st.alerts
       /\ actionStore' = done.st.actions
       /\ execCount' = [id \in DOMAIN execCount \cup
                                {c.ActionID : c \in Range(done.st.execs)} |->
                           (IF id \in DOMAIN execCount THEN execCount[id] ELSE 0)
                           + execsOf(done.st.execs, id)]
       /\ lastCall' = [call EXCEPT !.err = done.err, !.audits = done.st.audits,
                                   !.notes = done.st.notes, !.execs = done.st.execs,
                                   !.decisions = done.st.decisions,
                                   !.alertWrites = done.st.alertWrites,
                                   !.loaded = done.st.loaded,
                                   !.creates = done.st.creates,
                                   !.auditErrors = done.st.auditErrors,
                                   !.actionWrites = done.st.actionWrites]

\* HandleAlert(alert): the whole pipeline for one delivered alert. Ingestion
\* gives every alert a freshly generated ID (model.NewAlert).
HandleAlert ==
    /\ \E alert \in IncomingAlerts :
          /\ alert.ID \notin DOMAIN alertStore
          /\ \/ \E fault \in EarlyFaults :
                   Commit(HandleAlertOn(policies, OrchState, alert, fault, <<>>, <<>>),
                          [NewCall("HandleAlert", alert.ID, FALSE) EXCEPT !.input =
                              [alert |-> alert, fault |-> fault, suggestions |-> <<>>,
                               plan |-> <<>>, fates |-> <<>>]])
             \/ \E suggestions \in SuggestionLists :
                   LET plan == Plan(TheExecutor, alert.ID, suggestions,
                                    alert.Environment, alert.Namespace)
                   IN  \E fates \in FateSeqs(policies, alert.Environment, plan, 1) :
                          Commit(HandleAlertOn(policies, OrchState, alert, "none",
                                               plan, fates),
                                 [NewCall("HandleAlert", alert.ID, FALSE) EXCEPT !.input =
                                     [alert |-> alert, fault |-> "none",
                                      suggestions |-> suggestions, plan |-> plan,
                                      fates |-> fates]])
    /\ UNCHANGED <<policies, nApprovals, wlCommand, wlResult, evalAction, evalResult,
                   k8sCall, k8sResult, planCall, planResult,
                   anCall, anResult, auditDown, threadStore, inFlight>>

\* HandleApproval(req): an approve or reject click on an action ID
HandleApproval ==
    /\ nApprovals < MaxApprovals
    /\ \E actionID \in ApprovalIDs, approved \in BOOLEAN, approvedBy \in Users :
          \E o \in IF approved /\ actionID \in DOMAIN actionStore
                   THEN ExecOutcomes(Len(actionStore[actionID].Commands))
                   ELSE {[kind |-> "ok", at |-> 0]} :
             Commit(processApproval(OrchState, actionID, approved, approvedBy, o),
                    [NewCall("HandleApproval", actionID, approved) EXCEPT !.input =
                        [approvedBy |-> approvedBy, o |-> o]])
    /\ nApprovals' = nApprovals + 1
    /\ UNCHANGED <<policies, wlCommand, wlResult, evalAction, evalResult,
                   k8sCall, k8sResult, planCall, planResult,
                   anCall, anResult, auditDown, threadStore, inFlight>>

\* the state after construction: empty tables, the deployment's policies
Init ==
    /\ policies = DefaultPolicies
    /\ alertStore = EmptyTable
    /\ actionStore = EmptyTable
    /\ execCount = EmptyTable
    /\ lastCall = NoCall
    /\ nApprovals = 0
    /\ wlCommand = <<>>
    /\ wlResult = [decided |-> FALSE]
    /\ evalAction = [Risk |-> "low"]
    /\ evalResult = [decided |-> FALSE]
    /\ k8sCall = NoK8sCall
    /\ k8sResult = [done |-> FALSE]
    /\ planCall = NoPlanCall
    /\ planResult = [done |-> FALSE]
    /\ anCall = NoAnCall
    /\ anResult = [done |-> FALSE]
    /\ auditDown = {}
    /\ threadStore = <<>>
    /\ inFlight = NoCalls

Next == HandleAlert \/ HandleApproval

\* the orchestrator: alerts are handled and approvals arrive in any order
Spec == Init /\ [][Next]_vars

(***************************************************************************)
(* PolicyEvaluator.Evaluate on its own, over every policy and risk.        *)
(***************************************************************************)
\* the risk levels and policy modes the code names
Risks == {"low", "medium", "high", "critical"}
Modes == {"auto_fix", "warn_auto", "approval_required"}

\* the policy rows a repository may hold for an environment: any mode and any
\* max auto-risk, recognized or not ("observe", "severe"), enabled or disabled
PolicySpace ==
    [found : {TRUE}, Enabled : BOOLEAN, Mode : Modes \cup {"observe"},
     MaxAutoRisk : Risks \cup {"severe"}, Approvers : {<<"@oncall-team">>}]

\* the policy repositories: empty, or one row for dev or for prod
PolicyRepos ==
    {EmptyTable} \cup {[e \in {env} |-> p] : env \in {"dev", "prod"}, p \in PolicySpace}

InitEval ==
    /\ policies \in PolicyRepos
    /\ evalAction \in [Risk : Risks \cup {"severe"}]
    /\ evalResult = [decided |-> FALSE]
    /\ k8sCall = NoK8sCall
    /\ k8sResult = [done |-> FALSE]
    /\ planCall = NoPlanCall
    /\ planResult = [done |-> FALSE]
    /\ anCall = NoAnCall
    /\ anResult = [done |-> FALSE]
    /\ auditDown = {}
    /\ threadStore = <<>>
    /\ inFlight = NoCalls
    /\ alertStore = EmptyTable
    /\ actionStore = EmptyTable
    /\ execCount = EmptyTable
    /\ lastCall = NoCall
    /\ nApprovals = 0
    /\ wlCommand = <<>>
    /\ wlResult = [decided |-> FALSE]

\* one call of Evaluate(environment, action)
EvaluatePolicy ==
    /\ ~evalResult.decided
    /\ \E environment \in {"dev", "prod", "qa"} :
          evalResult' = [decided |-> TRUE, env |-> environment,
                         decision |-> Evaluate(policies, environment, evalAction)]
    /\ UNCHANGED <<policies, alertStore, actionStore, execCount, lastCall, nApprovals,
                   wlCommand, wlResult, evalAction, k8sCall, k8sResult,
                   planCall, planResult,
                   anCall, anResult, auditDown, threadStore, inFlight>>

\* a second call of Evaluate that left the policy disabled behind the first
ReEvaluatePolicy_Disables ==
    /\ evalResult.decided
    /\ "again" \notin DOMAIN evalResult
    /\ policies' = [e \in DOMAIN policies |-> [policies[e] EXCEPT !.Enabled = FALSE]]
    /\ evalResult' = [decided |-> TRUE, env |-> evalResult.env,
                      decision |-> evalResult.decision,
                      again |-> Evaluate(policies', evalResult.env, evalAction)]
    /\ UNCHANGED <<alertStore, actionStore, execCount, lastCall, nApprovals,
                   wlCommand, wlResult, evalAction, k8sCall, k8sResult,
                   planCall, planResult,
                   anCall, anResult, auditDown, threadStore, inFlight>>

\* a second call of Evaluate with the environment and action of the first; it
\* reads the policy row and writes nothing
ReEvaluatePolicy ==
    /\ evalResult.decided
    /\ "again" \notin DOMAIN evalResult
    /\ evalResult' = [decided |-> TRUE, env |-> evalResult.env,
                      decision |-> evalResult.decision,
                      again |-> Evaluate(policies, evalResult.env, evalAction)]
    /\ UNCHANGED <<policies, alertStore, actionStore, execCount, lastCall, nApprovals,
                   wlCommand, wlResult, evalAction, k8sCall, k8sResult,
                   planCall, planResult,
                   anCall, anResult, auditDown, threadStore, inFlight>>

NextEval == EvaluatePolicy \/ ReEvaluatePolicy

\* the policy evaluator called on any policy, environment and action risk, and
\* called again on the same
SpecEval == InitEval /\ [][NextEval]_vars

(***************************************************************************)
(* Command validation on its own, over command strings.                    *)
(***************************************************************************)
\* the pieces command strings are made of: binaries (allowed, allowed in upper
\* case, not allowed), the space, shell metacharacters and a sensitive path
Chunks ==
    {<<"l", "s">>, <<"C", "A", "T">>, <<"r", "m">>, <<" ">>, <<"$", "(">>, <<Backtick>>, <<"|">>, <<">">>,
     <<"<">>, <<";">>, <<"&", "&">>, <<"/", "e", "t", "c", "/", "s", "h", "a", "d", "o", "w">>}

RECURSIVE Concat(_)
\* the chunks written one after the other
Concat(chunks) ==
    IF chunks = <<>> THEN <<>> ELSE Head(chunks) \o Concat(Tail(chunks))

\* the command strings of at most MaxChunks chunks
WlCommands ==
    {Concat(c) : c \in UNION {[1..n -> Chunks] : n \in 0..MaxChunks}}

\* curl commands: an optional flag, then one absolute URL made of a scheme, a
\* host (external, loopback, in-cluster service, .local) and the rest of the URL
CurlCommands ==
    {<<"c", "u", "r", "l">> \o <<" ">> \o flag \o scheme \o host \o rest :
        flag \in {<<>>, <<"-", "s", " ">>},
        scheme \in {<<"h", "t", "t", "p", ":", "/", "/">>, <<"H", "T", "T", "P", "S", ":", "/", "/">>},
        host \in {<<"e", "v", "i", "l", ".", "i", "o">>, <<"l", "o", "c", "a", "l", "h", "o", "s", "t">>, <<"d", "b", ".", "s", "v", "c", ".", "c", "l", "u", "s", "t", "e", "r", ".", "l", "o", "c", "a", "l">>, <<"d", "b", ".", "l", "o", "c", "a", "l">>},
        rest \in {<<>>, <<"/", "x">>, <<":", "8", "0">>, <<"/", "l", "o", "c", "a", "l", "h", "o", "s", "t">>, <<"/", ".", "l", "o", "c", "a", "l", "/">>}}

\* one namespace argument in each of its three spellings, for an allowed and
\* for a blocked namespace
NamespaceArgs ==
    {form \o ns : form \in {<<" ", "-", "n", " ">>, <<" ", "-", "-", "n", "a", "m", "e", "s", "p", "a", "c", "e", " ">>, <<" ", "-", "-", "n", "a", "m", "e", "s", "p", "a", "c", "e", "=">>},
                  ns \in {NsDefault} \cup BlockedNS}

\* `ls` followed by at most two namespace arguments
NsCommands ==
    {<<"l", "s">>} \cup {<<"l", "s">> \o a : a \in NamespaceArgs}
            \cup {<<"l", "s">> \o a \o b : a \in NamespaceArgs, b \in NamespaceArgs}

InitWl ==
    /\ wlCommand \in WlCommands \cup CurlCommands \cup NsCommands
    /\ wlResult = [decided |-> FALSE]
    /\ policies = DefaultPolicies
    /\ alertStore = EmptyTable
    /\ actionStore = EmptyTable
    /\ execCount = EmptyTable
    /\ lastCall = NoCall
    /\ nApprovals = 0
    /\ evalAction = [Risk |-> "low"]
    /\ evalResult = [decided |-> FALSE]
    /\ k8sCall = NoK8sCall
    /\ k8sResult = [done |-> FALSE]
    /\ planCall = NoPlanCall
    /\ planResult = [done |-> FALSE]
    /\ anCall = NoAnCall
    /\ anResult = [done |-> FALSE]
    /\ auditDown = {}
    /\ threadStore = <<>>
    /\ inFlight = NoCalls

\* CommandValidator.Validate on the tokens of a suggested command, as the
\* planner calls it: Executor.ValidateCommand(strings.Fields(cmd))
ValidateCmd ==
    /\ ~wlResult.decided
    /\ wlResult' = [decided |-> TRUE, v |-> ValidateCommand(Fields(wlCommand))]
    /\ UNCHANGED <<policies, alertStore, actionStore, execCount, lastCall, nApprovals,
                   wlCommand, evalAction, evalResult, k8sCall, k8sResult,
                   planCall, planResult,
                   anCall, anResult, auditDown, threadStore, inFlight>>

NextWl == ValidateCmd

\* the command validator called once on any command string
SpecWl == InitWl /\ [][NextWl]_vars

(***************************************************************************)
(* The Executor's mutating calls on their own.                             *)
(***************************************************************************)
\* the namespaces a call may target: two ordinary ones and the blocked ones
K8sNamespaces == {NsDefault, <<"w", "e", "b">>} \cup BlockedNS

\* the calls made on the Executor: Exec of a command (allowed, not allowed,
\* reading a sensitive path, with a namespace flag), and the three calls that
\* change a deployment or a pod
K8sCalls ==
    [op : {"Exec"}, Namespace : K8sNamespaces, Name : {""},
     Command : {<<CmdLs>>, <<CmdRm>>, <<<<"c", "a", "t">>, <<"/", "e", "t", "c", "/", "s", "h", "a", "d", "o", "w">>>>, <<CmdLs, <<"-", "n">>, NsDefault>>},
     Replicas : {0}, outcome : {"ok", "exit", "err"}]
    \cup [op : {"RestartDeployment", "DeletePod"}, Namespace : K8sNamespaces,
          Name : {"app", "db"}, Command : {<<>>}, Replicas : {0},
          outcome : {"ok", "err"}]
    \cup [op : {"ScaleDeployment"}, Namespace : K8sNamespaces, Name : {"app", "db"},
          Command : {<<>>}, Replicas : {0, 3}, outcome : {"ok", "err"}]

InitK8s ==
    /\ k8sCall \in K8sCalls
    /\ k8sResult = [done |-> FALSE]
    /\ policies = DefaultPolicies
    /\ alertStore = EmptyTable
    /\ actionStore = EmptyTable
    /\ execCount = EmptyTable
    /\ lastCall = NoCall
    /\ nApprovals = 0
    /\ wlCommand = <<>>
    /\ wlResult = [decided |-> FALSE]
    /\ evalAction = [Risk |-> "low"]
    /\ evalResult = [decided |-> FALSE]
    /\ planCall = NoPlanCall
    /\ planResult = [done |-> FALSE]
    /\ anCall = NoAnCall
    /\ anResult = [done |-> FALSE]
    /\ auditDown = {}
    /\ threadStore = <<>>
    /\ inFlight = NoCalls

\* what an Executor call leaves unchanged
K8sUnchanged ==
    UNCHANGED <<policies, alertStore, actionStore, execCount, lastCall, nApprovals,
                wlCommand, wlResult, evalAction, evalResult, k8sCall,
                planCall, planResult,
                anCall, anResult, auditDown, threadStore, inFlight>>

\* Executor.Exec(req)
CallExec ==
    /\ ~k8sResult.done
    /\ k8sCall.op = "Exec"
    /\ k8sResult' = [done |-> TRUE,
                     r |-> Exec(k8sCall.Namespace, k8sCall.Command, k8sCall.outcome)]
    /\ K8sUnchanged

\* Executor.RestartDeployment(namespace, name)
CallRestartDeployment ==
    /\ ~k8sResult.done
    /\ k8sCall.op = "RestartDeployment"
    /\ k8sResult' = [done |-> TRUE,
                     r |-> RestartDeployment(k8sCall.Namespace, k8sCall.Name,
                                             k8sCall.outcome)]
    /\ K8sUnchanged

\* Executor.ScaleDeployment(namespace, name, replicas)
CallScaleDeployment ==
    /\ ~k8sResult.done
    /\ k8sCall.op = "ScaleDeployment"
    /\ k8sResult' = [done |-> TRUE,
                     r |-> ScaleDeployment(k8sCall.Namespace, k8sCall.Name,
                                           k8sCall.Replicas, k8sCall.outcome)]
    /\ K8sUnchanged

\* Executor.DeletePod(namespace, name)
CallDeletePod ==
    /\ ~k8sResult.done
    /\ k8sCall.op = "DeletePod"
    /\ k8sResult' = [done |-> TRUE,
                     r |-> DeletePod(k8sCall.Namespace, k8sCall.Name, k8sCall.outcome)]
    /\ K8sUnchanged

NextK8s == CallExec \/ CallRestartDeployment \/ CallScaleDeployment \/ CallDeletePod

\* one call on the Executor, for any target namespace
SpecK8s == InitK8s /\ [][NextK8s]_vars

(***************************************************************************)
(* The ActionPlanner on its own, with any K8sExecutor behind it.           *)
(***************************************************************************)
\* the commands the suggestions are made of
PlanCommands == {CmdLs, CmdPs, CmdRm}

\* the answers a K8sExecutor may give for a command: allowed with a graded
\* risk, allowed with a risk that is not a grade, or denied
Validations ==
    [Allowed : {TRUE}, Reason : {"ok"}, Risk : {"low", "medium", "critical", "none"}]
    \cup {[Allowed |-> FALSE, Reason |-> "denied", Risk |-> "blocked"]}

\* the K8sExecutors behind the planner: Executor, and the doubles that answer
\* each command in a fixed way
Validators ==
    {TheExecutor} \cup
    {[impl |-> "double", answers |-> a] :
        a \in [{Fields(c) : c \in PlanCommands} -> Validations]}

\* the command lists of one suggestion: empty, blank commands, allowed and
\* denied commands in either order
PlanCommandLists ==
    {<<>>, <<CmdLs>>, <<CmdRm, CmdLs>>, <<CmdLs, CmdPs>>, <<CmdPs, CmdRm, CmdLs>>,
     <<<<" ">>, CmdPs>>}

\* the risks the diagnosis provider declares for its suggestions
DeclaredRisks == {"low", "critical"}

\* the suggestion lists handed to Plan: any command lists, with one declared
\* risk for the suggestions of a list
PlanSuggestionLists ==
    UNION {{[k \in 1..n |-> [Commands |-> commands[k], Risk |-> declared]] :
               commands \in [1..n -> PlanCommandLists], declared \in DeclaredRisks} :
           n \in 0..MaxPlanned}

InitPlan ==
    /\ planCall \in [k8s : Validators, suggestions : PlanSuggestionLists]
    /\ planResult = [done |-> FALSE]
    /\ anCall = NoAnCall
    /\ anResult = [done |-> FALSE]
    /\ auditDown = {}
    /\ threadStore = <<>>
    /\ inFlight = NoCalls
    /\ policies = DefaultPolicies
    /\ alertStore = EmptyTable
    /\ actionStore = EmptyTable
    /\ execCount = EmptyTable
    /\ lastCall = NoCall
    /\ nApprovals = 0
    /\ wlCommand = <<>>
    /\ wlResult = [decided |-> FALSE]
    /\ evalAction = [Risk |-> "low"]
    /\ evalResult = [decided |-> FALSE]
    /\ k8sCall = NoK8sCall
    /\ k8sResult = [done |-> FALSE]

\* ActionPlanner.Plan(ctx, analysisID, alertID, suggestions, env, ns)
CallPlan ==
    /\ ~planResult.done
    /\ planResult' = [done |-> TRUE,
                      actions |-> Plan(planCall.k8s, "alert-1", planCall.suggestions,
                                       "dev", NsDefault)]
    /\ UNCHANGED <<policies, alertStore, actionStore, execCount, lastCall, nApprovals,
                   wlCommand, wlResult, evalAction, evalResult, k8sCall, k8sResult,
                   planCall, anCall, anResult, auditDown, threadStore, inFlight>>

NextPlan == CallPlan

\* one call of Plan, for any K8sExecutor and any suggestions
SpecPlan == InitPlan /\ [][NextPlan]_vars

(***************************************************************************)
(* HandleAlert with the Analyzer spelled out, for any diagnosis provider.  *)
(***************************************************************************)
\* what the diagnosis provider may answer: a failure, a final diagnosis (with
\* queries it did not ask to be run), and diagnoses that need more information
\* with one query, with two, and with none
Answers ==
    {[err |-> TRUE, NeedsMoreInfo |-> FALSE, FollowUpQueries |-> <<>>,
      SuggestedActions |-> <<>>],
     [err |-> FALSE, NeedsMoreInfo |-> FALSE, FollowUpQueries |-> <<"q1">>,
      SuggestedActions |-> <<[Commands |-> <<CmdLs>>]>>],
     [err |-> FALSE, NeedsMoreInfo |-> TRUE, FollowUpQueries |-> <<"q1">>,
      SuggestedActions |-> <<[Commands |-> <<CmdPs>>]>>],
     [err |-> FALSE, NeedsMoreInfo |-> TRUE, FollowUpQueries |-> <<"q1", "q2">>,
      SuggestedActions |-> <<[Commands |-> <<CmdPs>>]>>],
     [err |-> FALSE, NeedsMoreInfo |-> TRUE, FollowUpQueries |-> <<>>,
      SuggestedActions |-> <<>>]}

\* the behaviours of the collaborators of one AnalyzeAlert: the provider's
\* answers, the queries DescribeResource fails for, and whether the cluster
\* context can be gathered
AnCalls ==
    [llm : [1..MaxScript -> Answers], failing : {{}, {"q1"}}, gather : {"ok", "err"}]

\* the alert under analysis
AnalyzedAlert ==
    [ID |-> "alert-1", Status |-> "received", ThreadID |-> "", Environment |-> "dev",
     Namespace |-> NsDefault]

InitAn ==
    /\ anCall \in AnCalls
    /\ anResult = [done |-> FALSE]
    /\ auditDown = {}
    /\ threadStore = <<>>
    /\ inFlight = NoCalls
    /\ policies = DefaultPolicies
    /\ alertStore = EmptyTable
    /\ actionStore = EmptyTable
    /\ execCount = EmptyTable
    /\ lastCall = NoCall
    /\ nApprovals = 0
    /\ wlCommand = <<>>
    /\ wlResult = [decided |-> FALSE]
    /\ evalAction = [Risk |-> "low"]
    /\ evalResult = [decided |-> FALSE]
    /\ k8sCall = NoK8sCall
    /\ k8sResult = [done |-> FALSE]
    /\ planCall = NoPlanCall
    /\ planResult = [done |-> FALSE]

\* step 5 of HandleAlert on what step 4 returned: no plan after an error
planOf(alert, an) ==
    IF an.err THEN <<>>
    ELSE Plan(TheExecutor, alert.ID, an.suggestions, alert.Environment, alert.Namespace)

\* HandleAlert(alert) with step 4 done by AnalyzeAlert against the provider
HandleAlertAnalyzing ==
    /\ ~anResult.done
    /\ \E alert \in {AnalyzedAlert} :
       \E an \in {AnalyzeAlert(anCall.llm, anCall.failing, anCall.gather)} :
       \E plan \in {planOf(alert, an)} :
       \E fates \in FateSeqs(policies, alert.Environment, plan, 1) :
          /\ Commit(HandleAlertOn(policies, OrchState, alert,
                                  IF an.err THEN "analyze" ELSE "none", plan, fates),
                    NewCall("HandleAlert", alert.ID, FALSE))
          /\ anResult' = [done |-> TRUE, r |-> an, plan |-> plan]
    /\ UNCHANGED <<policies, nApprovals, wlCommand, wlResult, evalAction, evalResult,
                   k8sCall, k8sResult, planCall, planResult, anCall, auditDown,
                   threadStore, inFlight>>

NextAn == HandleAlertAnalyzing

\* one HandleAlert, for any behaviour of the diagnosis provider
SpecAn == InitAn /\ [][NextAn]_vars

(***************************************************************************)
(* ReceiveAlerts: a batch of alerts.                                       *)
(***************************************************************************)
\* the alerts of a batch: each delivery has its own ID and carries the
\* fingerprint of the upstream alert it reports
BatchAlerts ==
    [ID : {"alert-1", "alert-2"}, Status : {"received"}, ThreadID : {""},
     Environment : {"dev"}, Namespace : {NsDefault}, Fingerprint : {"fp-1", "fp-2"}]

\* what the diagnosis suggests for an alert of a batch
BatchSuggestions == {<<>>, <<[Commands |-> <<CmdLs>>]>>}

\* an alert of a batch that meets an early failure
FailingItems ==
    {[alert |-> a, fault |-> f, plan |-> <<>>, fates |-> <<>>] :
        a \in BatchAlerts, f \in EarlyFaults}

\* an alert of a batch that reaches its action loop with this plan
PlannedItems(a, plan) ==
    {[alert |-> a, fault |-> "none", plan |-> plan, fates |-> fs] :
        fs \in FateSeqs(policies, a.Environment, plan, 1)}

\* the alerts of a batch, each with the answers of its collaborators
BatchItems ==
    FailingItems \cup
    UNION {PlannedItems(a, Plan(TheExecutor, a.ID, sug, a.Environment, a.Namespace)) :
              a \in BatchAlerts, sug \in BatchSuggestions}

\* the batches delivered: up to MaxBatch alerts, the same ID possibly twice
Batches == UNION {[1..n -> BatchItems] : n \in 0..MaxBatch}

\* ReceiveAlerts(alerts); one batch is delivered in a behaviour
ReceiveAlerts ==
    /\ lastCall.op = "none"
    /\ \E batch \in Batches :
       \E r \in {ReceiveAlertsOn(policies, OrchState, batch)} :
          Commit(r, [NewCall("ReceiveAlerts",
                             [k \in 1..Len(batch) |-> batch[k].alert.ID], FALSE)
                        EXCEPT !.errs = r.errs, !.handled = r.handled])
    /\ UNCHANGED <<policies, nApprovals, wlCommand, wlResult, evalAction, evalResult,
                   k8sCall, k8sResult, planCall, planResult, anCall, anResult,
                   auditDown, threadStore, inFlight>>

NextBatch == ReceiveAlerts

\* one batch delivered to a new orchestrator
SpecBatch == Init /\ [][NextBatch]_vars

(***************************************************************************)
(* The three handlers with audit writes that fail.                         *)
(***************************************************************************)
\* the most audit writes one handler call makes: three for the analysis, two
\* for each planned action
MaxAuditWrites == 3 + 2 * MaxSuggestions

\* the patterns of failing audit writes, as positions in a call: every other
\* write fails, every write fails
AuditPatterns ==
    {{k \in 1..MaxAuditWrites : k % 2 = 1}, {k \in 1..MaxAuditWrites : k % 2 = 0},
     1..MaxAuditWrites}

\* the messages that reach HandleMessage
MessageRequests ==
    [ThreadID : {"t1"}, AlertID : {"alert-1"}, UserID : Users, Text : {"why?"}]

\* the collaborator call of HandleMessage that fails
MessageFaults == {"none", "create_thread", "converse", "update_thread"}

\* what the provider answers in a conversation
Replies == {"because"}

RECURSIVE StoredMessages(_, _)
\* the messages stored in rows 1..k of the conversations table
StoredMessages(threads, k) ==
    IF k = 0 THEN 0 ELSE Len(threads[k].Messages) + StoredMessages(threads, k - 1)

\* HandleMessage(req): a message in a transport thread
HandleMessage ==
    /\ StoredMessages(threadStore, Len(threadStore)) < 2 * MaxTurns
    /\ \E req \in MessageRequests, lookup \in {"ok", "err"}, fault \in MessageFaults,
          reply \in Replies :
          \E r \in {HandleMessageOn(OrchState, req, lookup, fault, reply)} :
             /\ Len(r.st.threads) <= MaxThreads
             /\ Commit(r, [NewCall("HandleMessage", req.ThreadID, FALSE) EXCEPT
                              !.reply = r.reply,
                              !.input = [req |-> req, lookup |-> lookup,
                                         fault |-> fault, reply |-> reply]])
             /\ threadStore' = r.st.threads
    /\ UNCHANGED <<policies, nApprovals, wlCommand, wlResult, evalAction, evalResult,
                   k8sCall, k8sResult, planCall, planResult, anCall, anResult,
                   auditDown, inFlight>>

\* a new orchestrator whose audit table rejects the writes of one pattern
InitAudit ==
    /\ policies = DefaultPolicies
    /\ alertStore = EmptyTable
    /\ actionStore = EmptyTable
    /\ execCount = EmptyTable
    /\ lastCall = NoCall
    /\ nApprovals = 0
    /\ wlCommand = <<>>
    /\ wlResult = [decided |-> FALSE]
    /\ evalAction = [Risk |-> "low"]
    /\ evalResult = [decided |-> FALSE]
    /\ k8sCall = NoK8sCall
    /\ k8sResult = [done |-> FALSE]
    /\ planCall = NoPlanCall
    /\ planResult = [done |-> FALSE]
    /\ anCall = NoAnCall
    /\ anResult = [done |-> FALSE]
    /\ auditDown \in AuditPatterns
    /\ threadStore = <<>>
    /\ inFlight = NoCalls

NextAudit == HandleAlert \/ HandleApproval \/ HandleMessage

\* alerts, approvals and messages over an audit table that fails
SpecAudit == InitAudit /\ [][NextAudit]_vars

(***************************************************************************)
(* HandleApproval calls that run at the same time. The orchestrator holds  *)
(* no lock; a call takes one step for each call it makes on the action     *)
(* store or on the cluster. Calls that do not overlap are among the runs.  *)
(***************************************************************************)
\* the concurrent approval calls
Clicks == 1..MaxClicks

\* the state with one more value for the call c
InFlightWith(c, call) == Put(inFlight, c, call)

\* the variables an approval call does not touch
ApprovalUnchanged ==
    UNCHANGED <<policies, alertStore, lastCall, nApprovals, wlCommand, wlResult,
                evalAction, evalResult, k8sCall, k8sResult, planCall, planResult,
                anCall, anResult, auditDown, threadStore>>

\* processApproval, Actions.GetByID: the call c starts and loads the action
ApprovalLoad(c) ==
    /\ c \notin DOMAIN inFlight
    /\ \E actionID \in ApprovalIDs, approved \in BOOLEAN, approvedBy \in Users :
          inFlight' = InFlightWith(c,
              IF actionID \in DOMAIN actionStore
              THEN [op |-> "HandleApproval", pc |-> "loaded", id |-> actionID,
                    approved |-> approved, by |-> approvedBy,
                    loaded |-> actionStore[actionID].Status,
                    action |-> actionStore[actionID], ran |-> FALSE, err |-> FALSE,
                    audits |-> <<>>]
              ELSE [op |-> "HandleApproval", pc |-> "done", id |-> actionID,
                    approved |-> approved, by |-> approvedBy, loaded |-> "",
                    action |-> NoAction, ran |-> FALSE, err |-> TRUE,
                    audits |-> <<>>])
    /\ UNCHANGED <<actionStore, execCount>>
    /\ ApprovalUnchanged

\* processApproval, Approve or Reject, UpdateStatus and the audit entry: the
\* row becomes approved or rejected whatever it holds now
ApprovalMark(c) ==
    /\ c \in DOMAIN inFlight
    /\ inFlight[c].op = "HandleApproval"
    /\ inFlight[c].pc = "loaded"
    /\ actionStore' = UpdateStatus(actionStore, inFlight[c].id,
                                   IF inFlight[c].approved THEN "approved"
                                                           ELSE "rejected",
                                   <<>>).table
    /\ inFlight' = InFlightWith(c,
           [inFlight[c] EXCEPT
               !.pc = IF inFlight[c].approved THEN "marked" ELSE "done",
               !.action = [@ EXCEPT !.Status = IF inFlight[c].approved
                                               THEN "approved" ELSE "rejected",
                                    !.ApprovedBy = inFlight[c].by],
               !.audits = Append(@, NewAuditLog(IF inFlight[c].approved
                                                THEN "action_approved"
                                                ELSE "action_rejected",
                                                inFlight[c].action.AlertID,
                                                inFlight[c].by, inFlight[c].id))])
    /\ UNCHANGED execCount
    /\ ApprovalUnchanged

\* processApproval, executeAction: the commands of the call's copy of the
\* action are run on the cluster
ApprovalExecute(c) ==
    /\ c \in DOMAIN inFlight
    /\ inFlight[c].op = "HandleApproval"
    /\ inFlight[c].pc = "marked"
    /\ \E o \in ExecOutcomes(Len(inFlight[c].action.Commands)) :
       \E executed \in {executeAction(inFlight[c].action, "HandleApproval", o)} :
          /\ execCount' = [id \in DOMAIN execCount \cup {inFlight[c].id} |->
                              (IF id \in DOMAIN execCount THEN execCount[id] ELSE 0)
                              + (IF id = inFlight[c].id THEN Len(executed.calls) ELSE 0)]
          /\ inFlight' = InFlightWith(c,
                 [inFlight[c] EXCEPT !.pc = "executed", !.ran = TRUE,
                                     !.action = executed.action,
                                     !.err = executed.err,
                                     !.audits = Append(@, executed.audit)])
    /\ UNCHANGED actionStore
    /\ ApprovalUnchanged

\* processApproval, the return: the error of executeAction, or the final
\* UpdateStatus with the status and output executeAction returned
ApprovalFinish(c) ==
    /\ c \in DOMAIN inFlight
    /\ inFlight[c].op = "HandleApproval"
    /\ inFlight[c].pc = "executed"
    /\ actionStore' = IF inFlight[c].err THEN actionStore
                      ELSE UpdateStatus(actionStore, inFlight[c].id,
                                        inFlight[c].action.Status,
                                        inFlight[c].action.Output).table
    /\ inFlight' = InFlightWith(c, [inFlight[c] EXCEPT !.pc = "done"])
    /\ UNCHANGED execCount
    /\ ApprovalUnchanged

\* a step of a concurrent approval call
ApprovalStep ==
    \E c \in Clicks :
        ApprovalLoad(c) \/ ApprovalMark(c) \/ ApprovalExecute(c) \/ ApprovalFinish(c)

\* an alert is handled before any click arrives
HandleAlertFirst == inFlight = NoCalls /\ HandleAlert

NextApprovals == HandleAlertFirst \/ ApprovalStep

\* an alert is handled, then approval clicks are processed concurrently
SpecApprovals == Init /\ [][NextApprovals]_vars

(***************************************************************************)
(* HandleMessage calls that run at the same time on one transport thread.  *)
(* The orchestrator holds no lock; a call takes one step for each call it  *)
(* makes on the conversations table or on the analyzer.                    *)
(***************************************************************************)
\* the concurrent message calls
Speakers == 1..MaxSpeakers

\* the transport thread the messages arrive on
SharedThread == "t1"

\* the request of the call c: every call brings its own text
SpeakerRequest(c) ==
    [ThreadID |-> SharedThread, AlertID |-> "alert-1", UserID |-> "alice",
     Text |-> <<"question", c>>]

\* what the provider answers to the call c
SpeakerReply(c) == <<"answer", c>>

\* the messages of the newest row of the thread, none when it has no row
StoredLog(threads, threadID) ==
    IF RowsOf(threads, threadID) = {} THEN <<>>
    ELSE threads[GetByThreadID(threads, threadID, "ok")].Messages

\* the calls that have started and not returned
Running == {c \in DOMAIN inFlight : inFlight[c].pc # "done"}

\* the calls in flight once another call has started next to them
Overlapped == [c \in DOMAIN inFlight |->
                  IF c \in Running THEN [inFlight[c] EXCEPT !.alone = FALSE]
                  ELSE inFlight[c]]

\* the variables a message call does not touch
MessageUnchanged ==
    UNCHANGED <<policies, alertStore, actionStore, execCount, lastCall, nApprovals,
                wlCommand, wlResult, evalAction, evalResult, k8sCall, k8sResult,
                planCall, planResult, anCall, anResult, auditDown>>

\* the call c returns from HandleMessage, the conversations table being threads
Returned(c, err, threads) ==
    [inFlight[c] EXCEPT !.pc = "done", !.err = err,
                        !.reply = IF err THEN <<>> ELSE SpeakerReply(c),
                        !.after = StoredLog(threads, SharedThread)]

\* HandleMessage, Conversations.GetByThreadID: the call c starts; it holds the
\* newest row of the thread, or goes on to create one when the query gave an
\* error, whatever the error
MessageGet(c) ==
    /\ c \notin DOMAIN inFlight
    /\ \E lookup \in {"ok", "err"} :
       \E found \in {GetByThreadID(threadStore, SharedThread, lookup)} :
          inFlight' = Put(Overlapped, c,
              [op |-> "HandleMessage", pc |-> IF found = 0 THEN "create" ELSE "converse",
               req |-> SpeakerRequest(c),
               thread |-> IF found = 0
                          THEN NewConversationThread(0, "alert-1", SharedThread)
                          ELSE threadStore[found],
               existed |-> RowsOf(threadStore, SharedThread) # {},
               before |-> StoredLog(threadStore, SharedThread),
               after |-> <<>>, created |-> FALSE, lookupFailed |-> lookup = "err",
               alone |-> Running = {}, err |-> FALSE, reply |-> <<>>,
               audits |-> <<>>])
    /\ UNCHANGED threadStore
    /\ MessageUnchanged

\* HandleMessage, Conversations.Create: a new row for the thread
MessageCreate(c) ==
    /\ c \in DOMAIN inFlight
    /\ inFlight[c].op = "HandleMessage"
    /\ inFlight[c].pc = "create"
    /\ \E fault \in {"none", "create_thread"} :
          IF fault = "create_thread"
          THEN /\ threadStore' = threadStore
               /\ inFlight' = Put(inFlight, c, Returned(c, TRUE, threadStore))
          ELSE /\ threadStore' = Append(threadStore,
                       NewConversationThread(Len(threadStore) + 1,
                                             inFlight[c].req.AlertID,
                                             inFlight[c].req.ThreadID))
               /\ inFlight' = Put(inFlight, c,
                      [inFlight[c] EXCEPT
                          !.pc = "converse", !.created = TRUE,
                          !.thread = NewConversationThread(Len(threadStore) + 1,
                                                           inFlight[c].req.AlertID,
                                                           inFlight[c].req.ThreadID)])
    /\ MessageUnchanged

\* HandleMessage, AddMessage(user), Analyzer.HandleConversation and
\* AddMessage(assistant), all on the call's own copy of the thread
MessageConverse(c) ==
    /\ c \in DOMAIN inFlight
    /\ inFlight[c].op = "HandleMessage"
    /\ inFlight[c].pc = "converse"
    /\ \E fault \in {"none", "converse"} :
          inFlight' = Put(inFlight, c,
              IF fault = "converse" THEN Returned(c, TRUE, threadStore)
              ELSE [inFlight[c] EXCEPT
                       !.pc = "update",
                       !.thread = AddMessage(
                                      AddMessage(@, "user", inFlight[c].req.Text,
                                                 inFlight[c].req.UserID),
                                      "assistant", SpeakerReply(c), "system")])
    /\ UNCHANGED threadStore
    /\ MessageUnchanged

\* HandleMessage, Conversations.Update, logAudit and the return: the row with
\* the ID of the call's copy is replaced by the copy
MessageUpdate(c) ==
    /\ c \in DOMAIN inFlight
    /\ inFlight[c].op = "HandleMessage"
    /\ inFlight[c].pc = "update"
    /\ \E fault \in {"none", "update_thread"} :
          IF fault = "update_thread"
          THEN /\ threadStore' = threadStore
               /\ inFlight' = Put(inFlight, c, Returned(c, TRUE, threadStore))
          ELSE /\ threadStore' = [threadStore EXCEPT ![inFlight[c].thread.ID] =
                                                         inFlight[c].thread]
               /\ inFlight' = Put(inFlight, c,
                      [Returned(c, FALSE,
                                [threadStore EXCEPT ![inFlight[c].thread.ID] =
                                                        inFlight[c].thread]) EXCEPT
                          !.audits = Append(@, NewAuditLog("conversation_message",
                                                           inFlight[c].req.AlertID,
                                                           inFlight[c].req.UserID,
                                                           NoAction))])
    /\ MessageUnchanged

\* a step of a concurrent message call
MessageStep ==
    \E c \in Speakers :
        MessageGet(c) \/ MessageCreate(c) \/ MessageConverse(c) \/ MessageUpdate(c)

NextMessages == MessageStep

\* message calls on one transport thread, processed concurrently
SpecMessages == Init /\ [][NextMessages]_vars

(***************************************************************************)
(* Terminal statuses.                                                      *)
(***************************************************************************)
\* Action.IsTerminal
IsTerminalAction(status) == status \in {"completed", "failed", "rejected", "rolled_back"}

\* Alert.IsTerminal
IsTerminalAlert(status) == status \in {"resolved", "failed", "duplicate", "silenced"}

(***************************************************************************)
(* Properties of the orchestrator (Spec).                                  *)
(***************************************************************************)
\* C1: during HandleAlert, Exec is invoked for an action's commands only if
\* Evaluate returned an auto-execute decision for that action; an action that
\* was denied or that needs approval has none of its commands executed.
C1_ExecOnlyOnAutoExecute ==
    lastCall.op = "HandleAlert" =>
        \A k \in DOMAIN lastCall.execs :
            LET id == lastCall.execs[k].ActionID
            IN  /\ id \in DOMAIN lastCall.decisions
                /\ lastCall.decisions[id].AutoExecute
                /\ lastCall.decisions[id].Allowed
                /\ ~lastCall.decisions[id].NeedsApproval

\* a HandleAlert call that ran the commands of an action
C1_Witness ==
    /\ lastCall.op = "HandleAlert"
    /\ lastCall.execs # <<>>
    /\ \A id \in DOMAIN lastCall.decisions : lastCall.decisions[id].AutoExecute

\* C2: HandleApproval executes an action's commands only when the action it
\* loaded is pending, so that repeated calls on one action id execute its
\* commands at most once and a call on a non-pending action executes nothing.
C2_ApprovalExecutesOnlyPending ==
    (lastCall.op = "HandleApproval" /\ lastCall.execs # <<>>) =>
        lastCall.loaded = "pending"

\* C3: once an Action's persisted status is completed, failed, rejected or
\* rolled_back, no later operation changes it.
C3_TerminalActionStays ==
    [][\A id \in DOMAIN actionStore :
          IsTerminalAction(actionStore[id].Status) =>
              /\ id \in DOMAIN actionStore'
              /\ actionStore'[id].Status = actionStore[id].Status]_vars

\* C4: once an Alert's status is resolved, failed, duplicate or silenced, no
\* later write changes it: of the statuses a call persists for its alert, one
\* that follows a terminal status is that same status.
C4_TerminalAlertStays ==
    \A k \in 1..(Len(lastCall.alertWrites) - 1) :
        IsTerminalAlert(lastCall.alertWrites[k]) =>
            lastCall.alertWrites[k + 1] = lastCall.alertWrites[k]

\* C6: when the policy lookup for the alert's environment fails, Evaluate
\* returns no error and allowed, needsApproval, not autoExecute, and HandleAlert
\* executes none of the commands of the alert's actions.
C6_LookupFailureNeedsApproval ==
    (/\ lastCall.op = "HandleAlert"
     /\ lastCall.id \in DOMAIN alertStore
     /\ alertStore[lastCall.id].Environment \notin DOMAIN policies) =>
        /\ lastCall.execs = <<>>
        /\ \A id \in DOMAIN lastCall.decisions :
              LET d == lastCall.decisions[id]
              IN  ~d.err /\ d.Allowed /\ d.NeedsApproval /\ ~d.AutoExecute

\* an alert of an environment without a policy row, with a planned action
\* evaluated and left pending
C6_Witness ==
    /\ lastCall.op = "HandleAlert"
    /\ lastCall.id \in DOMAIN alertStore
    /\ alertStore[lastCall.id].Environment \notin DOMAIN policies
    /\ \E id \in DOMAIN lastCall.decisions :
          id \in DOMAIN actionStore /\ actionStore[id].Status = "pending"

(***************************************************************************)
(* Properties of PolicyEvaluator.Evaluate (SpecEval).                      *)
(***************************************************************************)
\* the policy row the evaluated environment has, if any
EvaluatedPolicy == GetByEnvironment(policies, evalResult.env)

\* low < medium < high < critical, as positions in the order
RiskRank(r) == CHOOSE k \in 1..4 : <<"low", "medium", "high", "critical">>[k] = r

\* C5: for an enabled policy and every pair (action risk, maxAutoRisk) of
\* recognized levels, autoExecute holds iff the mode is auto_fix or warn_auto and
\* risk <= maxAutoRisk; otherwise needsApproval holds; approval_required never
\* gives autoExecute.
C5_AutoExecuteIffWithinRisk ==
    (/\ evalResult.decided
     /\ EvaluatedPolicy.found
     /\ EvaluatedPolicy.Enabled
     /\ evalAction.Risk \in Risks
     /\ EvaluatedPolicy.MaxAutoRisk \in Risks) =>
        LET d == evalResult.decision
            within == RiskRank(evalAction.Risk) <= RiskRank(EvaluatedPolicy.MaxAutoRisk)
        IN  /\ d.AutoExecute <=>
                   (EvaluatedPolicy.Mode \in {"auto_fix", "warn_auto"} /\ within)
            /\ ~d.AutoExecute => d.NeedsApproval
            /\ EvaluatedPolicy.Mode = "approval_required" => ~d.AutoExecute

\* auto_fix with the action's risk equal to the maximum: auto-executed
C5_Witness ==
    /\ evalResult.decided
    /\ EvaluatedPolicy.found
    /\ EvaluatedPolicy.Enabled
    /\ EvaluatedPolicy.Mode = "auto_fix"
    /\ evalAction.Risk = "medium"
    /\ EvaluatedPolicy.MaxAutoRisk = "medium"
    /\ evalResult.decision.AutoExecute

\* C7: for a disabled policy Evaluate returns allowed=false and
\* autoExecute=false, whatever the risk, the mode and the maxAutoRisk are.
C7_DisabledPolicyDenies ==
    (evalResult.decided /\ EvaluatedPolicy.found /\ ~EvaluatedPolicy.Enabled) =>
        (~evalResult.decision.Allowed /\ ~evalResult.decision.AutoExecute)

\* a disabled auto_fix policy asked about a low-risk action
C7_Witness ==
    /\ evalResult.decided
    /\ EvaluatedPolicy.found
    /\ ~EvaluatedPolicy.Enabled
    /\ EvaluatedPolicy.Mode = "auto_fix"
    /\ EvaluatedPolicy.MaxAutoRisk = "critical"
    /\ evalAction.Risk = "low"
    /\ ~evalResult.decision.Allowed

\* C8: for an enabled policy, an unrecognized action risk, maxAutoRisk or mode
\* gives needsApproval=true and autoExecute=false.
C8_UnrecognizedNeedsApproval ==
    (/\ evalResult.decided
     /\ EvaluatedPolicy.found
     /\ EvaluatedPolicy.Enabled
     /\ \/ evalAction.Risk \notin Risks
        \/ EvaluatedPolicy.MaxAutoRisk \notin Risks
        \/ EvaluatedPolicy.Mode \notin Modes) =>
        (evalResult.decision.NeedsApproval /\ ~evalResult.decision.AutoExecute)

\* an enabled auto_fix policy asked about an action of unrecognized risk
C8_Witness ==
    /\ evalResult.decided
    /\ EvaluatedPolicy.found
    /\ EvaluatedPolicy.Enabled
    /\ EvaluatedPolicy.Mode = "auto_fix"
    /\ EvaluatedPolicy.MaxAutoRisk = "critical"
    /\ evalAction.Risk = "severe"
    /\ evalResult.decision.NeedsApproval

(***************************************************************************)
(* Properties of command validation (SpecWl).                              *)
(***************************************************************************)
\* the first token of the command is an exec-allowlisted binary
BinaryAllowlisted ==
    Len(Fields(wlCommand)) > 0 /\ ToLower(Fields(wlCommand)[1]) \in ExecSet

C10_RedirectDenied ==
    (/\ wlResult.decided
     /\ \E p \in {<<">">>, <<">", ">">>, <<"<">>, <<"<", "<">>} :
           Contains(wlCommand, p)) =>
        ~wlResult.v.Allowed

\* the tokens of the command under validation
Tokens == Fields(wlCommand)

\* the argument is an absolute http(s) URL
IsAbsoluteURL(arg) ==
    HasPrefix(ToLower(arg), HttpPrefix) \/ HasPrefix(ToLower(arg), HttpsPrefix)

\* the host of an absolute http(s) URL: what follows the scheme, up to the
\* first `/`, `:`, `?` or `#`
UrlHost(arg) ==
    LET u == ToLower(arg)
        start == IF HasPrefix(u, HttpsPrefix) THEN Len(HttpsPrefix) + 1
                                              ELSE Len(HttpPrefix) + 1
        ends == {k \in start..Len(u) : u[k] \in {"/", ":", "?", "#"}}
        stop == IF ends = {} THEN Len(u) + 1
                ELSE CHOOSE k \in ends : \A j \in ends : k <= j
    IN  SubSeq(u, start, stop - 1)

\* the host is loopback or under an in-cluster DNS suffix
HostIsInternal(h) ==
    \/ h \in {<<"l", "o", "c", "a", "l", "h", "o", "s", "t">>, <<"1", "2", "7", ".", "0", ".", "0", ".", "1">>, <<":", ":", "1">>}
    \/ \E suffix \in {<<".", "s", "v", "c", ".", "c", "l", "u", "s", "t", "e", "r", ".", "l", "o", "c", "a", "l">>, <<".", "l", "o", "c", "a", "l">>} :
          /\ Len(suffix) <= Len(h)
          /\ SubSeq(h, Len(h) - Len(suffix) + 1, Len(h)) = suffix

\* C11: a curl command is denied if any argument is an absolute URL whose host
\* is not cluster-internal (not loopback, not under an in-cluster DNS suffix).
C11_ExternalUrlDenied ==
    (/\ wlResult.decided
     /\ Len(Tokens) > 0
     /\ ToLower(Tokens[1]) = <<"c", "u", "r", "l">>
     /\ \E i \in 2..Len(Tokens) :
           IsAbsoluteURL(Tokens[i]) /\ ~HostIsInternal(UrlHost(Tokens[i]))) =>
        ~wlResult.v.Allowed

\* some -n / --namespace / --namespace= argument of the command names a
\* blocked namespace
NamesBlockedNamespace(tokens) ==
    \E i \in 1..Len(tokens) :
        \/ /\ tokens[i] \in {<<"-", "n">>, <<"-", "-", "n", "a", "m", "e", "s", "p", "a", "c", "e">>}
           /\ i + 1 <= Len(tokens)
           /\ tokens[i + 1] \in BlockedNS
        \/ /\ HasPrefix(tokens[i], <<"-", "-", "n", "a", "m", "e", "s", "p", "a", "c", "e", "=">>)
           /\ SubSeq(tokens[i], Len(<<"-", "-", "n", "a", "m", "e", "s", "p", "a", "c", "e", "=">>) + 1, Len(tokens[i])) \in BlockedNS

\* C13: ValidateCommand denies every command in which any namespace argument
\* names a blocked namespace, also when an earlier occurrence of the flag names
\* an allowed namespace.
C13_BlockedNamespaceArgDenied ==
    (wlResult.decided /\ NamesBlockedNamespace(Tokens)) => ~wlResult.v.Allowed

(***************************************************************************)
(* Properties of the Executor's mutating calls (SpecK8s).                  *)
(***************************************************************************)
\* C12: Exec, RestartDeployment, ScaleDeployment and DeletePod each return an
\* error and send nothing to the cluster when the target namespace is blocked.
C12_BlockedNamespaceNoOperation ==
    (k8sResult.done /\ k8sCall.Namespace \in BlockedNS) =>
        (k8sResult.r.err /\ k8sResult.r.ops = <<>>)

\* a ScaleDeployment call on a blocked namespace that the cluster would have
\* accepted, returned with an error
C12_Witness ==
    /\ k8sResult.done
    /\ k8sCall.op = "ScaleDeployment"
    /\ k8sCall.Namespace \in BlockedNS
    /\ k8sCall.outcome = "ok"
    /\ k8sResult.r.err

(***************************************************************************)
(* Properties of the ActionPlanner (SpecPlan).                             *)
(***************************************************************************)
\* whether the planner's K8sExecutor allows the command
IsAllowedCommand(cmd) ==
    Len(Fields(cmd)) > 0 /\ K8sValidate(planCall.k8s, Fields(cmd)).Allowed

\* the commands of suggestion i that the K8sExecutor allows, in their order
AllowedCommands(i) == SelectSeq(planCall.suggestions[i].Commands, IsAllowedCommand)

\* whether a command list holds a command
NonEmpty(list) == list # <<>>

\* the allowed commands of each suggestion that has one, in the suggestions' order
SurvivingLists ==
    SelectSeq([i \in 1..Len(planCall.suggestions) |-> AllowedCommands(i)], NonEmpty)

\* C14: Plan returns one Action for each suggestion that has a command allowed
\* by ValidateCommand, holding exactly the suggestion's allowed commands in
\* their order; an all-denied suggestion yields no Action and no denied command
\* is in a returned Action.
C14_PlanKeepsAllowedCommands ==
    planResult.done =>
        [k \in 1..Len(planResult.actions) |-> planResult.actions[k].Commands]
            = SurvivingLists

\* Plan dropped one suggestion, all denied, and returned an action that lost a
\* denied command from between two allowed ones
C14_Witness ==
    /\ planResult.done
    /\ Len(planCall.suggestions) = 2
    /\ Len(planResult.actions) = 1
    /\ planCall.suggestions[2].Commands = <<CmdPs, CmdRm, CmdLs>>
    /\ planResult.actions[1].Commands = <<CmdPs, CmdLs>>

\* the graded risks the K8sExecutor assigned to the commands of a list
GradedRisks(commands) ==
    {K8sValidate(planCall.k8s, Fields(commands[k])).Risk : k \in 1..Len(commands)}
        \cap {"low", "medium", "high", "critical"}

\* the highest of a set of graded risks, low for the empty set
HighestRisk(risks) ==
    IF risks = {} THEN "low"
    ELSE CHOOSE r \in risks : \A q \in risks : RiskRank(q) <= RiskRank(r)

\* C15: the risk of every Action Plan returns is the highest of the risks
\* ValidateCommand assigned to its surviving commands, and low when none of
\* them carries a recognized risk.
C15_ActionRiskIsHighest ==
    planResult.done =>
        \A k \in 1..Len(planResult.actions) :
            planResult.actions[k].Risk
                = HighestRisk(GradedRisks(planResult.actions[k].Commands))

\* Plan returned an action of two commands whose first carries the higher risk,
\* and an action whose only command carries no recognized risk
C15_Witness ==
    /\ planResult.done
    /\ Len(planResult.actions) = 2
    /\ planResult.actions[1].Commands = <<CmdLs, CmdPs>>
    /\ K8sValidate(planCall.k8s, Fields(CmdLs)).Risk = "critical"
    /\ K8sValidate(planCall.k8s, Fields(CmdPs)).Risk = "none"
    /\ planResult.actions[1].Risk = "critical"
    /\ planResult.actions[2].Commands = <<CmdPs>>
    /\ planResult.actions[2].Risk = "low"

(***************************************************************************)
(* Outcomes of the orchestrator's handlers (Spec).                         *)
(***************************************************************************)
\* the last call was a HandleAlert that ran to the end of its action loop
HandledAlert == lastCall.op = "HandleAlert" /\ ~lastCall.err

\* the actions the last HandleAlert planned and evaluated
PlannedIDs == DOMAIN lastCall.decisions

\* the persisted status of the alert of the last HandleAlert
FinalAlertStatus == alertStore[lastCall.id].Status

\* the action is stored with this status
StoredAs(id, status) == id \in DOMAIN actionStore /\ actionStore[id].Status = status

\* the action was auto-executed and is stored completed
AutoCompleted(id) ==
    /\ lastCall.decisions[id].Allowed
    /\ ~lastCall.decisions[id].NeedsApproval
    /\ StoredAs(id, "completed")

\* C16: when HandleAlert runs to the end of its per-action loop, the alert's
\* final persisted status is resolved if and only if every planned action was
\* auto-executed and completed (none denied, none held for approval, none
\* failed); in every other case the alert is left non-terminal.
C16_ResolvedIffAllCompleted ==
    HandledAlert =>
        /\ FinalAlertStatus = "resolved" <=> \A id \in PlannedIDs : AutoCompleted(id)
        /\ FinalAlertStatus # "resolved" => ~IsTerminalAlert(FinalAlertStatus)

\* the planned actions the policy decision holds for approval
NeedsApprovalIDs ==
    {id \in PlannedIDs :
        lastCall.decisions[id].Allowed /\ lastCall.decisions[id].NeedsApproval}

\* the last call sent an approval request for the action
Requested(id) ==
    \E k \in DOMAIN lastCall.notes :
        lastCall.notes[k].Kind = "RequestApproval" /\ lastCall.notes[k].ActionID = id

\* Actions.Create succeeded for the action in the last call
CreateSucceeded(id) ==
    \E k \in DOMAIN lastCall.creates :
        lastCall.creates[k].ActionID = id /\ lastCall.creates[k].ok

AllAutoAccepted ==
    /\ alertStore[lastCall.id].Environment \in DOMAIN policies
    /\ policies[alertStore[lastCall.id].Environment].Mode = "auto_fix"
    /\ \A id \in PlannedIDs : lastCall.decisions[id].AutoExecute

\* every Exec call of the last handler call returned exit code zero
AllExitZero ==
    \A k \in DOMAIN lastCall.execs :
        ~lastCall.execs[k].err /\ lastCall.execs[k].ExitCode = 0

\* each planned action had all its commands run, is stored completed, no
\* approval was requested, and the alert is stored resolved
AllExecutedAndResolved ==
    /\ \A id \in PlannedIDs :
          /\ StoredAs(id, "completed")
          /\ execsOf(lastCall.execs, id) = Len(actionStore[id].Commands)
          /\ ~Requested(id)
    /\ FinalAlertStatus = "resolved"

OnPending(approved) ==
    /\ lastCall.op = "HandleApproval"
    /\ lastCall.approved = approved
    /\ lastCall.loaded = "pending"

\* C19: after HandleApproval with approved=true on a pending action returns,
\* the action's persisted status is completed if every command exited zero, and
\* failed if some command exited non-zero or the execution call returned an
\* error.
C19_ApprovedEndsCompletedOrFailed ==
    OnPending(TRUE) =>
        actionStore[lastCall.id].Status
            = (IF AllExitZero THEN "completed" ELSE "failed")

EarlierCalls(k) ==
    {j \in 1..(k - 1) : lastCall.execs[j].ActionID = lastCall.execs[k].ActionID}

\* the Exec call failed: an execution error or a non-zero exit code
CallFailed(e) == e.err \/ e.ExitCode # 0

\* C21: executeAction runs an action's commands strictly in list order and,
\* after the first command that returns an execution error or a non-zero exit
\* code, runs no later command of that action.
C21_InOrderUntilFirstFailure ==
    \A k \in DOMAIN lastCall.execs :
        /\ lastCall.execs[k].Cmd = Cardinality(EarlierCalls(k)) + 1
        /\ lastCall.execs[k].Command
              = Fields(actionStore[lastCall.execs[k].ActionID].Commands[lastCall.execs[k].Cmd])
        /\ \A j \in EarlierCalls(k) :
              /\ lastCall.execs[j].Cmd < lastCall.execs[k].Cmd
              /\ ~CallFailed(lastCall.execs[j])

\* an action of two commands whose first command failed and whose second was
\* not run
C21_Witness ==
    /\ Len(lastCall.execs) = 1
    /\ CallFailed(lastCall.execs[1])
    /\ Len(actionStore[lastCall.execs[1].ActionID].Commands) = 2

\* the actions an execution of the last handler call failed for
FailedExecutions ==
    {lastCall.execs[k].ActionID : k \in {j \in DOMAIN lastCall.execs :
                                            CallFailed(lastCall.execs[j])}}

\* the output holds the error text of a failing command: the error Exec
\* returned, or the exit code with the command's stderr
HoldsError(output) == \E k \in DOMAIN output : output[k] \in {"ERROR", "EXIT"}

\* C22: whenever an executed action fails, in HandleAlert's auto-execute path
\* or after approval, the action record persisted afterwards has status failed
\* and a persisted output that contains the error of the failing command.
C22_FailedActionPersistedWithError ==
    \A id \in FailedExecutions :
        /\ StoredAs(id, "failed")
        /\ HoldsError(actionStore[id].Output)

\* the actions the last handler call ran executeAction for
ExecutedIDs == {lastCall.execs[k].ActionID : k \in DOMAIN lastCall.execs}

\* the outcome audit entries the last handler call wrote for the action
OutcomeAudits(id) ==
    {k \in DOMAIN lastCall.audits :
        /\ lastCall.audits[k].ActionID = id
        /\ lastCall.audits[k].EventType \in {"action_completed", "action_failed"}}

\* the action notifications the last handler call sent for the action
ActionNotes(id) ==
    {k \in DOMAIN lastCall.notes :
        lastCall.notes[k].Kind = "NotifyAction" /\ lastCall.notes[k].ActionID = id}

\* the outcome of the action's execution in the last handler call
OutcomeOf(id) == IF id \in FailedExecutions THEN "failed" ELSE "completed"

\* C23: each execution of an action, auto-executed by HandleAlert or executed
\* after approval, emits exactly one outcome audit entry (action completed on
\* success, action failed on failure) and exactly one action notification, in
\* the success case and in the failure case alike.
C23_OneAuditOneNotification ==
    \A id \in ExecutedIDs :
        /\ Cardinality(OutcomeAudits(id)) = 1
        /\ \A k \in OutcomeAudits(id) :
              lastCall.audits[k].EventType
                  = (IF OutcomeOf(id) = "failed" THEN "action_failed"
                                                 ELSE "action_completed")
        /\ Cardinality(ActionNotes(id)) = 1
        /\ \A k \in ActionNotes(id) : lastCall.notes[k].Status = OutcomeOf(id)

\* an approved action whose execution failed, audited and notified once
C23_Witness ==
    /\ OnPending(TRUE)
    /\ lastCall.id \in FailedExecutions
    /\ Cardinality(OutcomeAudits(lastCall.id)) = 1
    /\ Cardinality(ActionNotes(lastCall.id)) = 1

(***************************************************************************)
(* Properties of the Analyzer (SpecAn).                                    *)
(***************************************************************************)
\* the positions of the diagnosis calls in the trace of AnalyzeAlert
DiagnosePositions ==
    {k \in DOMAIN anResult.r.trace : anResult.r.trace[k].kind = "Diagnose"}

\* C24: for every behaviour of the diagnosis provider, also one that reports
\* needsMoreInfo with follow-up queries on every call, one AnalyzeAlert issues
\* at most 4 diagnosis calls (1 initial plus 3 follow-up rounds) and returns.
C24_AtMostFourDiagnoses ==
    anResult.done =>
        /\ Cardinality(DiagnosePositions) <= 1 + 3
        /\ Cardinality(DiagnosePositions) = anResult.r.diagnoses

\* the provider asked for more information on every call and was called 4 times
C24_Witness ==
    /\ anResult.done
    /\ \A n \in DOMAIN anCall.llm :
          /\ anCall.llm[n].NeedsMoreInfo
          /\ anCall.llm[n].FollowUpQueries # <<>>
    /\ Cardinality(DiagnosePositions) = 4
    /\ ~anResult.r.err

\* C25: in a follow-up round of AnalyzeAlert, if a resource-description query
\* fails, the error is appended to the context and the follow-up loop stops:
\* diagnosis is not re-invoked after the failing query.
C25_QueryErrorStopsFollowUp ==
    anResult.done =>
        \A k \in DOMAIN anResult.r.trace :
            (anResult.r.trace[k].kind = "Describe" /\ anResult.r.trace[k].err) =>
                \A j \in DOMAIN anResult.r.trace :
                    j > k => anResult.r.trace[j].kind # "Diagnose"

\* a diagnosis call of the last AnalyzeAlert failed
DiagnosisFailed ==
    \E k \in DiagnosePositions : anResult.r.trace[k].err

C27_ErrorLeavesFailed ==
    /\ (lastCall.op = "HandleAlert" /\ lastCall.err /\ lastCall.id \in DOMAIN alertStore)
          => alertStore[lastCall.id].Status = "failed"
    /\ (lastCall.op = "HandleApproval" /\ lastCall.err
            /\ lastCall.id \in DOMAIN actionStore)
          => actionStore[lastCall.id].Status = "failed"

(***************************************************************************)
(* The audit trail of the orchestrator's handlers (Spec).                  *)
(***************************************************************************)
\* how many audit entries of this type the last handler call wrote for the
\* action (NoAction for the entries of the alert itself)
AuditCount(eventType, actionID) ==
    Cardinality({k \in DOMAIN lastCall.audits :
                    /\ lastCall.audits[k].EventType = eventType
                    /\ lastCall.audits[k].ActionID = actionID})

\* the planned actions the policy denied in the last HandleAlert
DeniedIDs == {id \in PlannedIDs : ~lastCall.decisions[id].Allowed}

\* C29: every significant transition the orchestrator performs (alert
\* received, analysis started, analysis completed, policy evaluated, action
\* planned, action approved, action rejected by policy or by a human, action
\* executed, action completed or failed) appends exactly one audit entry of
\* the matching type when audit writes succeed.
C29_OneAuditPerTransition ==
    /\ HandledAlert =>
          /\ AuditCount("alert_received", NoAction) = 1
          /\ AuditCount("analysis_started", NoAction) = 1
          /\ AuditCount("analysis_completed", NoAction) = 1
          /\ \A id \in PlannedIDs :
                /\ AuditCount("policy_evaluated", id) = 1
                /\ AuditCount("action_planned", id) = 1
          /\ \A id \in DeniedIDs : AuditCount("action_rejected", id) = 1
    /\ \A id \in ExecutedIDs :
          /\ AuditCount("action_executed", id) = 1
          /\ AuditCount("action_completed", id) + AuditCount("action_failed", id) = 1
    /\ OnPending(TRUE) => AuditCount("action_approved", lastCall.id) = 1
    /\ OnPending(FALSE) => AuditCount("action_rejected", lastCall.id) = 1

(***************************************************************************)
(* Properties of ReceiveAlerts (SpecBatch).                                *)
(***************************************************************************)
\* the last call was ReceiveAlerts
Received == lastCall.op = "ReceiveAlerts"

\* the positions of the batch whose HandleAlert returned an error
FailedPositions == {k \in DOMAIN lastCall.handled : lastCall.handled[k].err}

\* the IDs at the given positions of the batch, in the batch's order
IDsAt(positions) ==
    LET Picked(k) == k \in positions
    IN  [j \in 1..Cardinality(positions) |->
            lastCall.id[SelectSeq([k \in 1..Len(lastCall.id) |-> k], Picked)[j]]]

\* the alert notifications the last call sent
AlertNotes ==
    {k \in DOMAIN lastCall.notes : lastCall.notes[k].Kind = "NotifyAlert"}

\* C30: ReceiveAlerts calls HandleAlert once for every alert of the batch, in
\* order, whether or not earlier alerts failed, and returns a single error if
\* and only if an alert failed, that error naming exactly the failed alerts;
\* what was persisted and notified for the alerts that succeeded stays.
C30_BatchIsBestEffort ==
    Received =>
        /\ [k \in 1..Len(lastCall.handled) |-> lastCall.handled[k].ID] = lastCall.id
        /\ lastCall.err <=> FailedPositions # {}
        /\ lastCall.errs = IDsAt(FailedPositions)
        /\ \A k \in DOMAIN lastCall.handled \ FailedPositions :
              /\ lastCall.id[k] \in DOMAIN alertStore
              /\ alertStore[lastCall.id[k]].Status \in {"acting", "resolved"}
              /\ alertStore[lastCall.id[k]].ThreadID = "thread"
        /\ Cardinality(AlertNotes)
              >= Cardinality(DOMAIN lastCall.handled \ FailedPositions)

\* a batch whose first alert failed after it was persisted and whose second
\* alert was handled to the end
C30_Witness ==
    /\ Received
    /\ Len(lastCall.id) = 2
    /\ FailedPositions = {1}
    /\ lastCall.errs = <<lastCall.id[1]>>
    /\ lastCall.id[1] \in DOMAIN alertStore
    /\ alertStore[lastCall.id[2]].Status = "resolved"

(***************************************************************************)
(* Audit writes that fail (SpecAudit).                                     *)
(***************************************************************************)
\* the state a handler call starts from, were every audit write to succeed
AllWritten == [OrchState EXCEPT !.auditDown = {}]

\* the reply a handler call returned; only HandleMessage returns one
ReplyOf(r) == IF "reply" \in DOMAIN r THEN r.reply ELSE ""

\* the step returned, persisted and executed what the call r did
SameOutcome(r) ==
    /\ lastCall'.err = r.err
    /\ lastCall'.reply = ReplyOf(r)
    /\ alertStore' = r.st.alerts
    /\ actionStore' = r.st.actions
    /\ threadStore' = r.st.threads
    /\ lastCall'.execs = r.st.execs

\* the handler call of the step made again from the same state and with the
\* same answers of the collaborators, every audit write succeeding
WithAllAuditsWritten ==
    CASE lastCall'.op = "HandleAlert" ->
           HandleAlertOn(policies, AllWritten, lastCall'.input.alert,
                         lastCall'.input.fault, lastCall'.input.plan,
                         lastCall'.input.fates)
      [] lastCall'.op = "HandleApproval" ->
           processApproval(AllWritten, lastCall'.id, lastCall'.approved,
                           lastCall'.input.approvedBy, lastCall'.input.o)
      [] lastCall'.op = "HandleMessage" ->
           HandleMessageOn(AllWritten, lastCall'.input.req, lastCall'.input.lookup,
                           lastCall'.input.fault, lastCall'.input.reply)

\* the step is a handler call that did what it does when every audit write
\* succeeds
AsWithAllAuditsWritten == \E r \in {WithAllAuditsWritten} : SameOutcome(r)

\* C28: for every pattern of failing audit writes, HandleAlert, HandleApproval
\* and HandleMessage return the same result, persist the same alerts, actions
\* and threads and execute the same commands as when every audit write succeeds.
C28_AuditFailureChangesNothing == [][AsWithAllAuditsWritten]_vars

\* a HandleMessage that lost its audit entry and still stored the exchange and
\* returned the reply
C28_Witness ==
    /\ lastCall.op = "HandleMessage"
    /\ lastCall.auditErrors = 1
    /\ lastCall.audits = <<>>
    /\ ~lastCall.err
    /\ lastCall.reply = "because"
    /\ Len(threadStore) = 1
    /\ Len(threadStore[1].Messages) = 2

(***************************************************************************)
(* An empty plan (Spec).                                                   *)
(***************************************************************************)
\* the last call was a HandleAlert that reached its action loop with no action
PlannedNothing ==
    /\ HandledAlert
    /\ lastCall.input.fault = "none"
    /\ lastCall.input.plan = <<>>

WritesOf(id) ==
    SelectSeq(lastCall.actionWrites, LAMBDA w : w.ActionID = id)

\* the number of Exec calls the last call had made when the first command of
\* the action ran
ExecsBefore(id) ==
    (CHOOSE k \in DOMAIN lastCall.execs :
        /\ lastCall.execs[k].ActionID = id
        /\ \A j \in 1..(k - 1) : lastCall.execs[j].ActionID # id) - 1

\* the writes to the row of the action made before its first command ran
WritesBeforeExec(id) ==
    SelectSeq(WritesOf(id), LAMBDA w : w.after <= ExecsBefore(id))

\* the writes to the row of the action made after its first command ran
WritesAfterExec(id) ==
    SelectSeq(WritesOf(id), LAMBDA w : w.after > ExecsBefore(id))

\* the status the row of an action holds while the last call runs its commands
StatusWhileRunning ==
    IF lastCall.op = "HandleApproval" THEN "approved" ELSE "planned"

\* C40: the status executing is never written to the actions table: while the
\* commands of an action run its row stays planned (auto-execute) or approved
\* (approval), and the only write after them is one to completed or failed.
C40_ExecutingNeverPersisted ==
    /\ \A id \in DOMAIN actionStore : actionStore[id].Status # "executing"
    /\ \A k \in DOMAIN lastCall.actionWrites :
          lastCall.actionWrites[k].Status # "executing"
    /\ \A id \in ExecutedIDs :
          /\ WritesBeforeExec(id) # <<>>
          /\ WritesBeforeExec(id)[Len(WritesBeforeExec(id))].Status = StatusWhileRunning
          /\ Len(WritesAfterExec(id)) <= 1
          /\ \A k \in DOMAIN WritesAfterExec(id) :
                WritesAfterExec(id)[k].Status \in {"completed", "failed"}

\* an approved action whose commands ran and whose row went from approved to
\* completed, after a HandleAlert that ran nothing for it
C40_Witness ==
    /\ lastCall.op = "HandleApproval"
    /\ lastCall.id \in ExecutedIDs
    /\ Len(WritesBeforeExec(lastCall.id)) = 1
    /\ WritesBeforeExec(lastCall.id)[1].Status = "approved"
    /\ Len(WritesAfterExec(lastCall.id)) = 1
    /\ WritesAfterExec(lastCall.id)[1].Status = "completed"

(***************************************************************************)
(* The approver's identity (Spec).                                         *)
(***************************************************************************)
\* users that may click: the requester, a stranger, an approver of prod
AnyApprover == {"alice", "mallory", "@oncall-team"}

\* the approvers the policy of the action's environment names
ApproversOf(actionID) ==
    Range(policies[actionStore[actionID].Environment].Approvers)

\* the step is a HandleApproval that did what the same click does when it comes
\* from any other user
SameForEveryApprover ==
    lastCall'.op = "HandleApproval" =>
        \A other \in AnyApprover :
            \E r \in {processApproval(OrchState, lastCall'.id, lastCall'.approved,
                                      other, lastCall'.input.o)} :
                SameOutcome(r)

\* C38: the identity of the approver never influences HandleApproval: whatever
\* the value of ApprovedBy, the same action is executed or rejected with the
\* same persisted status, and the policy's approver list is not consulted.
C38_ApproverIgnored == [][SameForEveryApprover]_vars

\* a pending prod action approved by a user the policy does not list, executed
\* and stored completed
C38_Witness ==
    /\ OnPending(TRUE)
    /\ lastCall.input.approvedBy \notin ApproversOf(lastCall.id)
    /\ ApproversOf(lastCall.id) # {}
    /\ lastCall.id \in ExecutedIDs
    /\ StoredAs(lastCall.id, "completed")

(***************************************************************************)
(* The risk the diagnosis provider declares (SpecPlan).                    *)
(***************************************************************************)
\* the suggestions of the call with the declared risks replaced by those of rs
Redeclared(rs) ==
    [k \in DOMAIN planCall.suggestions |->
        [planCall.suggestions[k] EXCEPT !.Risk = rs[k]]]

\* the risks of the actions of a plan, and the decisions of the prod policy
\* for them, in order
RisksAndDecisions(actions) ==
    [k \in DOMAIN actions |->
        [Risk |-> actions[k].Risk,
         decision |-> Evaluate(DefaultPolicies, "prod", actions[k])]]

\* C39: the risk recorded on a planned action, and so the policy decision for
\* it, does not depend on the risk the diagnosis provider declared: the same
\* commands with any other declared risks give actions of equal risk.
C39_DeclaredRiskIgnored ==
    planResult.done =>
        \A rs \in [DOMAIN planCall.suggestions -> DeclaredRisks] :
            RisksAndDecisions(Plan(planCall.k8s, "alert-1", Redeclared(rs), "dev",
                                   NsDefault))
                = RisksAndDecisions(planResult.actions)

\* a suggestion declared critical, validated by the Executor, planned as low
C39_Witness ==
    /\ planResult.done
    /\ planCall.k8s = TheExecutor
    /\ Len(planCall.suggestions) = 1
    /\ planCall.suggestions[1].Risk = "critical"
    /\ Len(planResult.actions) = 1
    /\ planResult.actions[1].Risk = "low"

(***************************************************************************)
(* Evaluate called again (SpecEval).                                       *)
(***************************************************************************)
\* a step of Evaluate leaves the policy store and the action as they were, and
\* a second call returns the decision of the first
EvaluateAgainIsSame ==
    /\ evalResult'.decided => (policies' = policies /\ evalAction' = evalAction)
    /\ "again" \in DOMAIN evalResult' => evalResult'.again = evalResult'.decision

FailedExecs == {k \in DOMAIN lastCall.execs : lastCall.execs[k].err}

\* C31: once a cancellation has made an external call fail during HandleAlert
\* or executeAction, the orchestrator issues no further external call (no
\* command, no write to the stores, no notification or approval request) and
\* returns, leaving the persisted state as last written.
C31_CancellationStopsCalls ==
    \A k \in FailedExecs :
        /\ k = Len(lastCall.execs)
        /\ \A n \in DOMAIN lastCall.notes :
              ~(/\ lastCall.notes[n].Kind = "NotifyAction"
                /\ lastCall.notes[n].ActionID = lastCall.execs[k].ActionID)
        /\ \A w \in DOMAIN lastCall.actionWrites : lastCall.actionWrites[w].after < k

(***************************************************************************)
(* Deliveries of the same upstream alert (SpecBatch).                      *)
(***************************************************************************)
\* the alert at position j of the batch is a later delivery of the upstream
\* alert of position i, which is stored and not terminal
RedeliveredWhileOpen(i, j) ==
    /\ i < j
    /\ lastCall.id[i] # lastCall.id[j]
    /\ lastCall.id[i] \in DOMAIN alertStore
    /\ lastCall.id[j] \in DOMAIN alertStore
    /\ alertStore[lastCall.id[i]].Fingerprint = alertStore[lastCall.id[j]].Fingerprint
    /\ ~IsTerminalAlert(alertStore[lastCall.id[i]].Status)

\* C36: when the same upstream alert (same fingerprint) is delivered twice, one
\* after the other, while the first alert is still non-terminal, HandleAlert
\* does not run the pipeline a second time: no second non-terminal alert is
\* persisted and no action is executed for the second delivery.
C36_DuplicateNotProcessed ==
    Received =>
        \A i, j \in DOMAIN lastCall.id :
            RedeliveredWhileOpen(i, j) =>
                /\ IsTerminalAlert(alertStore[lastCall.id[j]].Status)
                /\ \A k \in DOMAIN lastCall.execs :
                      lastCall.execs[k].ActionID[1] # lastCall.id[j]

(***************************************************************************)
(* Concurrent approvals (SpecApprovals).                                   *)
(***************************************************************************)
\* the approving calls on the action that have run its commands
RanFor(id) ==
    {c \in DOMAIN inFlight :
        inFlight[c].id = id /\ inFlight[c].approved /\ inFlight[c].ran}

\* the action was pending when an approving call loaded it
ApprovedWhilePending(id) ==
    \E c \in DOMAIN inFlight :
        inFlight[c].id = id /\ inFlight[c].approved /\ inFlight[c].loaded = "pending"

\* C34: under every interleaving of two concurrent HandleApproval calls with
\* approved=true for the same pending action, the action's commands are
\* executed at most once.
C34_ApprovedRunsOnce ==
    \A id \in DOMAIN actionStore :
        ApprovedWhilePending(id) => Cardinality(RanFor(id)) <= 1

(***************************************************************************)
(* Concurrent and successive messages on one thread (SpecMessages).        *)
(***************************************************************************)
\* the calls that returned a reply
Answered == {c \in DOMAIN inFlight : inFlight[c].pc = "done" /\ ~inFlight[c].err}

\* the log holds the message with this role and content
Holds(log, role, content) ==
    \E k \in DOMAIN log : log[k].Role = role /\ log[k].Content = content

\* log continues the log old
Extends(log, old) ==
    /\ Len(old) <= Len(log)
    /\ \A k \in DOMAIN old : log[k] = old[k]

\* what the call c appends: its user message, then the reply
Exchange(c) ==
    <<[Role |-> "user", Content |-> inFlight[c].req.Text,
       UserID |-> inFlight[c].req.UserID],
      [Role |-> "assistant", Content |-> inFlight[c].reply, UserID |-> "system"]>>

\* C32: after a successful HandleMessage on a transport thread id, the persisted
\* thread for that id holds its previous messages unchanged, followed by exactly
\* the user message and then the assistant reply; a new thread is created only
\* when none exists for that id.
C32_MessageAppended ==
    \A c \in Answered :
        inFlight[c].alone =>
            /\ inFlight[c].after = inFlight[c].before \o Exchange(c)
            /\ inFlight[c].created => ~inFlight[c].existed

\* every query of the conversations table answered
NoLookupFailed == \A c \in DOMAIN inFlight : ~inFlight[c].lookupFailed

\* every call has returned a reply
AllAnswered == Answered = Speakers

\* C35: under every interleaving of two concurrent HandleMessage calls on the
\* same transport thread id, the thread's message log stays append-only: after
\* both calls return successfully the persisted log contains both user messages
\* and both assistant replies, and exactly one thread exists for that id.
C35_ConcurrentMessagesKept ==
    (NoLookupFailed /\ AllAnswered) =>
        /\ Cardinality(RowsOf(threadStore, SharedThread)) = 1
        /\ \A c \in Speakers :
              /\ Holds(StoredLog(threadStore, SharedThread), "user",
                       inFlight[c].req.Text)
              /\ Holds(StoredLog(threadStore, SharedThread), "assistant",
                       SpeakerReply(c))

====
